---- MODULE Spec2Model ----
(***************************************************************************)
(* Verification model of the Zowe Explorer profile cache (ProfilesCache),  *)
(* the SharedUtils helpers and the DatasetActions delete handlers.         *)
(*                                                                         *)
(* JavaScript objects are modelled as a heap: heapO holds the              *)
(* IProfileLoaded objects, heapI the IProfile objects they point to, and   *)
(* the cache's collections hold object identifiers, so that aliasing       *)
(* (Object.assign on an existing object, token clearing through a shared   *)
(* IProfile) behaves as in the program.  After every operation the heap is *)
(* renumbered in traversal order and unreachable objects are dropped.      *)
(***************************************************************************)
EXTENDS Integers, Sequences, FiniteSets, Bags, TLC

VARIABLES
    cfg,                  \* what ProfileInfo holds after the last readProfilesFromDisk
    heapO,                \* IProfileLoaded objects: [name, type, profile (index in heapI)]
    heapI,                \* IProfile objects: the merged attributes
    allProfiles,          \* ProfilesCache.allProfiles (object ids)
    minusOne,             \* property "-1" of the allProfiles array object (0: not set)
    profilesByType,       \* ProfilesCache.profilesByType (type -> object ids)
    defaultProfileByType, \* ProfilesCache.defaultProfileByType (type -> object id)
    allTypes,             \* ProfilesCache.allTypes
    allExternalTypes,     \* ProfilesCache.allExternalTypes (a Set, in insertion order)
    call,                 \* the last operation, its arguments and what it returned
    now,                  \* the clock, in milliseconds
    timeoutId,            \* the timeoutId of the debounce closure (0: undefined)
    timers,               \* the timers setTimeout has scheduled and that have not run
    events,               \* the calls of the debounced function and of the callback
    promises,             \* debounceAsync: the promise returned by each call
    running,              \* debounceAsync: the calls whose callback is in flight
    tree,                 \* the nodes of the data set tree
    mFavorites,           \* the nodes the data set tree holds as favorites
    gui,                  \* the messages the last data set action has shown
    del,                  \* the last data set action, its arguments and its outcome
    zoom,                 \* DatasetActions.zoom: where it stands and what it has done
    fav,                  \* SharedUtils.parseFavorites: the lines given and what it returned
    concat,               \* SharedUtils.concatChildNodes: the tree, the nodes given, the result
    typeConfigs,          \* the profile type meta-data arrays of addToConfigArray
    stored,               \* the token properties the configuration file stores for a profile
    change,               \* SharedUtils.handleProfileChange: the providers and what was done
    tasks                 \* the bag of the asynchronous calls of ProfilesCache under way

cacheVars == <<cfg, heapO, heapI, allProfiles, minusOne, profilesByType,
               defaultProfileByType, allTypes, allExternalTypes>>

debounceVars == <<now, timeoutId, timers, events, promises, running>>

datasetVars == <<tree, mFavorites, gui, del, zoom>>

utilVars == <<fav, concat, typeConfigs, stored, change>>

vars == <<cfg, heapO, heapI, allProfiles, minusOne, profilesByType,
          defaultProfileByType, allTypes, allExternalTypes, call,
          now, timeoutId, timers, events, promises, running,
          tree, mFavorites, gui, del, zoom, fav, concat, typeConfigs, stored, change,
          tasks>>

(***************************************************************************)
(* Values                                                                  *)
(***************************************************************************)

\* JavaScript undefined, for string-valued attributes
NoVal == "undefined"

\* Profile names are sequences of segments: "lpar.zosmf" is <<"lpar", "zosmf">>.
\* The empty sequence stands for "no name" (undefined).
NoName == <<>>

\* imperative.SessConstants.TOKEN_TYPE_APIML
TOKEN_TYPE_APIML == "apimlAuthenticationToken"

\* JavaScript truthiness of a string or number attribute
Truthy(v) == v \notin {NoVal, "", "0"}

\* String.prototype.startsWith(TOKEN_TYPE_APIML) on the token types of the model
StartsWithApiml(s) == s \in {"apimlAuthenticationToken", "apimlAuthenticationToken.1"}

\* String.prototype.startsWith("$")
StartsWithDollar(s) == s \in {"$ZE_USER", "$ZE_PASS"}

\* s.match(/^\$(\w+)$/)?.[1]
EnvVarName(s) ==
    CASE s = "$ZE_USER" -> "ZE_USER"
      [] s = "$ZE_PASS" -> "ZE_PASS"
      [] OTHER -> NoVal

\* process.env: ZE_USER is set, ZE_PASS is not
ProcessEnv(v) == IF v = "ZE_USER" THEN "ibmuser" ELSE NoVal

Attrs(h, p, u, pw, tt, tv) ==
    [host |-> h, port |-> p, user |-> u, password |-> pw, tokenType |-> tt, tokenValue |-> tv]

(***************************************************************************)
(* Sequence helpers                                                        *)
(***************************************************************************)

RECURSIVE Dedup(_)
Dedup(s) ==
    IF s = <<>> THEN <<>>
    ELSE LET r == Dedup(SubSeq(s, 1, Len(s) - 1))
             x == s[Len(s)]
         IN IF \E i \in 1..Len(r) : r[i] = x THEN r ELSE Append(r, x)

\* Array.prototype.findIndex, 1-based; 0 stands for JavaScript's -1
FindIndex(s, P(_)) ==
    IF \E i \in 1..Len(s) : P(s[i])
    THEN CHOOSE i \in 1..Len(s) : P(s[i]) /\ \A j \in 1..(i - 1) : ~P(s[j])
    ELSE 0

IndexOf(s, x) == CHOOSE i \in 1..Len(s) : s[i] = x

RECURSIVE Flatten(_)
Flatten(ss) == IF ss = <<>> THEN <<>> ELSE Head(ss) \o Flatten(Tail(ss))

Range(s) == {s[i] : i \in 1..Len(s)}

(***************************************************************************)
(* The team configuration as the imperative library presents it            *)
(***************************************************************************)

Z1 == <<"zosmf1">>
Z2 == <<"lpar", "zosmf">>
Z3 == <<"lpar", "sub", "zosmf">>
B1 == <<"base">>
LPAR == <<"lpar">>
LPARSUB == <<"lpar", "sub">>

\* The order in which the configuration lists its profiles
CfgOrder == <<Z1, LPAR, LPARSUB, Z2, Z3, B1>>

CfgNames == Range(CfgOrder)

\* The profile types the model knows
TypeOrder == <<"zosmf", "zftp", "ssh", "base">>

TypeNames == Range(TypeOrder)

\* A profile of the configuration: its type (NoVal: a typeless group), whether
\* profLoc.osLoc is non-empty, what mergeArgsForProfile reports as knownArgs
\* (secure values included), and the properties config.api.profiles.get returns.
Entry(t, os, a, pr) == [type |-> t, osLoc |-> os, args |-> a, props |-> pr]

Present(c, n) == n \in DOMAIN c.profiles /\ c.profiles[n] # <<>>

EntryOf(c, n) == c.profiles[n][1]

\* The IProfAttrs of profile n
ProfAttrs(c, n) ==
    [profName |-> n,
     profType |-> EntryOf(c, n).type,
     isDefaultProfile |-> (EntryOf(c, n).type \in DOMAIN c.defaults
                            /\ c.defaults[EntryOf(c, n).type] = n),
     osLoc |-> EntryOf(c, n).osLoc]

\* ProfileInfo.getAllProfiles(type)
GetAllProfiles(c, type) ==
    LET OfType(n) == Present(c, n) /\ EntryOf(c, n).type = type
        names == SelectSeq(CfgOrder, OfType)
    IN [i \in 1..Len(names) |-> ProfAttrs(c, names[i])]

\* ProfileInfo.getDefaultProfile(type): <<attrs>>, or <<>> for null
GetDefaultConfigProfile(c, type) ==
    LET IsDef(a) == a.isDefaultProfile
        defs == SelectSeq(GetAllProfiles(c, type), IsDef)
    IN IF defs = <<>> THEN <<>> ELSE <<defs[1]>>

\* ProfilesCache.getMergedAttrs: the knownArgs of mergeArgsForProfile as an IProfile
GetMergedAttrs(c, profAttrs) == EntryOf(c, profAttrs.profName).args

\* ProfilesCache.getProfileLoaded, as a value
GetProfileLoaded(profileName, profileType, profile) ==
    [name |-> profileName, type |-> profileType, profile |-> profile]

(***************************************************************************)
(* ProfilesCache: pure parts                                               *)
(***************************************************************************)

\* shouldRemoveTokenFromProfile with (user || password) in place of (user && password)
ShouldRemoveTokenUserOrPassword(profile, base) ==
    /\ base # <<>>
    /\ (Truthy(base[1].host) \/ Truthy(base[1].port))
    /\ Truthy(profile.host)
    /\ Truthy(profile.port)
    /\ \/ base[1].host # profile.host
       \/ base[1].port # profile.port
       \/ (Truthy(profile.user) \/ Truthy(profile.password))
    /\ profile.tokenType # NoVal
    /\ StartsWithApiml(profile.tokenType)

\* ProfilesCache.shouldRemoveTokenFromProfile.  profile is an IProfile; base is
\* <<the default base profile's IProfile>>, or <<>> when baseProfile is undefined.
ShouldRemoveTokenFromProfile(profile, base) ==
    /\ base # <<>>
    /\ (Truthy(base[1].host) \/ Truthy(base[1].port))
    /\ Truthy(profile.host)
    /\ Truthy(profile.port)
    /\ \/ base[1].host # profile.host
       \/ base[1].port # profile.port
       \/ (Truthy(profile.user) /\ Truthy(profile.password))
    /\ profile.tokenType # NoVal
    /\ StartsWithApiml(profile.tokenType)

\* profile.profile.tokenType = profile.profile.tokenValue = undefined
ClearToken(profile) == [profile EXCEPT !.tokenType = NoVal, !.tokenValue = NoVal]

\* One iteration of the loop of ProfilesCache.checkForEnvVarAndUpdate
EnvVarUpdateOne(profile) ==
    LET userVar == EnvVarName(profile.user)
        userSkip == /\ profile.user # NoVal
                    /\ StartsWithDollar(profile.user)
                    /\ (userVar = NoVal \/ ~Truthy(ProcessEnv(userVar)))
        p1 == IF profile.user # NoVal /\ StartsWithDollar(profile.user) /\ ~userSkip
              THEN [profile EXCEPT !.user = ProcessEnv(userVar)]
              ELSE profile
        passVar == EnvVarName(profile.password)
        passSet == /\ profile.password # NoVal
                   /\ StartsWithDollar(profile.password)
                   /\ passVar # NoVal
                   /\ Truthy(ProcessEnv(passVar))
    IN IF userSkip THEN profile
       ELSE IF passSet THEN [p1 EXCEPT !.password = ProcessEnv(passVar)]
       ELSE p1

\* ProfilesCache.checkForEnvVarAndUpdate on the IProfile objects of the given
\* IProfileLoaded objects
CheckForEnvVarAndUpdate(hO, hI, objs) ==
    [i \in 1..Len(hI) |->
        IF \E k \in 1..Len(objs) : hO[objs[k]].profile = i
        THEN EnvVarUpdateOne(hI[i])
        ELSE hI[i]]

\* ProfilesCache.getAllProfileTypes
GetAllProfileTypes(registeredTypes, externalTypes) ==
    LET NotRegistered(t) == \A i \in 1..Len(registeredTypes) : registeredTypes[i] # t
    IN registeredTypes \o SelectSeq(externalTypes, NotRegistered)

\* The types as an array to which "ssh" and "base" are pushed
RefreshTypesArray(registeredTypes, externalTypes) ==
    GetAllProfileTypes(registeredTypes, externalTypes) \o <<"ssh", "base">>

\* new Set(getAllProfileTypes(...)) with "ssh" and "base" added, in insertion order
RefreshTypes(registeredTypes, externalTypes) ==
    Dedup(GetAllProfileTypes(registeredTypes, externalTypes) \o <<"ssh", "base">>)

(***************************************************************************)
(* The object heap                                                         *)
(***************************************************************************)

\* The cache's references in traversal order: allProfiles, its "-1" property,
\* the lists of profilesByType, the values of defaultProfileByType
RootsOf(all, m1, byType, defs) ==
    all
    \o (IF m1 = 0 THEN <<>> ELSE <<m1>>)
    \o Flatten([i \in 1..Len(TypeOrder) |->
                 IF TypeOrder[i] \in DOMAIN byType THEN byType[TypeOrder[i]] ELSE <<>>])
    \o Flatten([i \in 1..Len(TypeOrder) |->
                 IF TypeOrder[i] \in DOMAIN defs THEN <<defs[TypeOrder[i]]>> ELSE <<>>])

\* The cache with its reachable objects renumbered in traversal order
Canon(hO, hI, all, m1, byType, defs) ==
    LET order == Dedup(RootsOf(all, m1, byType, defs))
        NewO(o) == IndexOf(order, o)
        inner == Dedup([k \in 1..Len(order) |-> hO[order[k]].profile])
        NewI(i) == IndexOf(inner, i)
    IN [heapO |-> [k \in 1..Len(order) |->
                      [hO[order[k]] EXCEPT !.profile = NewI(hO[order[k]].profile)]],
        heapI |-> [k \in 1..Len(inner) |-> hI[inner[k]]],
        allProfiles |-> [k \in 1..Len(all) |-> NewO(all[k])],
        minusOne |-> IF m1 = 0 THEN 0 ELSE NewO(m1),
        profilesByType |-> [t \in DOMAIN byType |->
                              [k \in 1..Len(byType[t]) |-> NewO(byType[t][k])]],
        defaultProfileByType |-> [t \in DOMAIN defs |-> NewO(defs[t])]]

SetCache(st) ==
    /\ heapO' = st.heapO
    /\ heapI' = st.heapI
    /\ allProfiles' = st.allProfiles
    /\ minusOne' = st.minusOne
    /\ profilesByType' = st.profilesByType
    /\ defaultProfileByType' = st.defaultProfileByType

\* An IProfileLoaded of the cache as a value: name, type and the IProfile it points to
Loaded(o) == GetProfileLoaded(heapO[o].name, heapO[o].type, heapI[heapO[o].profile])

\* ProfilesCache.getDefaultProfile(type): <<profile>>, or <<>> for undefined
GetDefaultProfile(type) ==
    IF type \in DOMAIN defaultProfileByType
    THEN <<Loaded(defaultProfileByType[type])>>
    ELSE <<>>

\* ProfilesCache.getProfiles(type)
GetProfiles(type) ==
    IF type \in DOMAIN profilesByType
    THEN [k \in 1..Len(profilesByType[type]) |-> Loaded(profilesByType[type][k])]
    ELSE <<>>

\* The record of an operation: its name, its arguments and its outcome
\* (kind: "return" or "throw"; index: the position in allProfiles of a returned
\* profile, 0 for undefined; value: a returned value that is no cached object)
Call(op, name, type, optional, profile, kind, index, value) ==
    [op |-> op, name |-> name, type |-> type, optional |-> optional,
     profile |-> profile, kind |-> kind, index |-> index, value |-> value]

NoArgs == <<>>

(***************************************************************************)
(* ProfilesCache: operations                                               *)
(***************************************************************************)

\* ProfilesCache.registerCustomProfilesType
RegisterCustomProfilesType(profileTypeName) ==
    /\ allExternalTypes' = Dedup(Append(allExternalTypes, profileTypeName))
    /\ call' = Call("registerCustomProfilesType", NoName, profileTypeName, FALSE, NoArgs,
                    "return", 0, NoVal)
    /\ UNCHANGED <<cfg, heapO, heapI, allProfiles, minusOne, profilesByType,
                   defaultProfileByType, allTypes>>

\* The public ProfilesCache.checkForEnvVarAndUpdate() is called by itself: in one
\* synchronous step the user and password of the cached profiles that name a set
\* environment variable take its value; nothing else changes
CheckForEnvVarAndUpdateCall ==
    /\ heapI' = CheckForEnvVarAndUpdate(heapO, heapI, allProfiles)
    /\ call' = Call("checkForEnvVarAndUpdate", NoName, NoVal, FALSE, NoArgs, "return", 0,
                    NoVal)
    /\ UNCHANGED <<cfg, heapO, allProfiles, minusOne, profilesByType,
                   defaultProfileByType, allTypes, allExternalTypes>>

\* The profiles refresh loads, in the order of its two loops: for every type of
\* allTypes, the profiles of that type whose osLoc is not empty
RefreshLoaded(c, types) ==
    LET HasLoc(a) == a.osLoc
    IN Flatten([i \in 1..Len(types) |-> SelectSeq(GetAllProfiles(c, types[i]), HasLoc)])

\* The object of this.allProfiles with the name and type of prof; 0 if there is none
ExistingProfile(prof) ==
    LET Same(o) == heapO[o].name = prof.profName /\ heapO[o].type = prof.profType
        idx == FindIndex(allProfiles, Same)
    IN IF idx = 0 THEN 0 ELSE allProfiles[idx]

\* The cleanup of refresh: the keys of profilesByType with no profile in the new
\* allProfiles
RefreshOldTypes(byType, loaded) ==
    {t \in DOMAIN byType : \A k \in 1..Len(loaded) : loaded[k].profType # t}

\* ProfilesCache.checkMergingConfigAllProfiles on a heap: every profile of
\* profilesByType is checked against defaultProfileByType.get("base").  The check of
\* one profile reads the host and port of the base profile and writes only tokens, so
\* the checks do not depend on their order.
CheckMergingConfigAllProfiles(hO, hI, byType, defs) ==
    LET base == IF "base" \in DOMAIN defs THEN <<hI[hO[defs["base"]].profile]>> ELSE <<>>
        Checked(i) == \E t \in DOMAIN byType : \E k \in 1..Len(byType[t]) :
                          hO[byType[t][k]].profile = i
    IN [i \in 1..Len(hI) |->
          IF Checked(i) /\ ShouldRemoveTokenFromProfile(hI[i], base)
          THEN ClearToken(hI[i])
          ELSE hI[i]]

\* The state of the cache after the body of ProfilesCache.refresh(apiRegister), the
\* part that follows await this.getProfileInfo(), with c the configuration the
\* ProfileInfo holds; registeredTypes is apiRegister?.registeredApiTypes() ?? []
RefreshResult(c, registeredTypes) ==
    LET hI0 == heapI
        types == RefreshTypes(registeredTypes, allExternalTypes)
        loaded == RefreshLoaded(c, types)
        n == Len(loaded)
        nO == Len(heapO)
        nI == Len(heapI)
        \* Step 2: merged attributes and profileFix of the k-th profile
        hI1 == hI0 \o [k \in 1..n |-> GetMergedAttrs(c, loaded[k])]
        \* Step 3: Object.assign(existingProfile, profileFix)
        hO1 == [o \in 1..nO |->
                  IF \E k \in 1..n : ExistingProfile(loaded[k]) = o
                  THEN [heapO[o] EXCEPT !.profile =
                          nI + (CHOOSE k \in 1..n : ExistingProfile(loaded[k]) = o)]
                  ELSE heapO[o]]
               \o [k \in 1..n |->
                     [name |-> loaded[k].profName, type |-> loaded[k].profType,
                      profile |-> nI + k]]
        Kept(k) == IF ExistingProfile(loaded[k]) # 0
                   THEN ExistingProfile(loaded[k])
                   ELSE nO + k
        all1 == [k \in 1..n |-> Kept(k)]
        loadedTypes == {loaded[k].profType : k \in 1..n}
        OfType(t) == LET Is(k) == loaded[k].profType = t
                     IN SelectSeq([k \in 1..n |-> k], Is)
        byType1 == [t \in DOMAIN profilesByType \cup loadedTypes |->
                      IF t \in loadedTypes
                      THEN [j \in 1..Len(OfType(t)) |-> Kept(OfType(t)[j])]
                      ELSE profilesByType[t]]
        defaultTypes == {loaded[k].profType : k \in {j \in 1..n : loaded[j].isDefaultProfile}}
        def1 == [t \in DOMAIN defaultProfileByType \cup defaultTypes |->
                   IF t \in defaultTypes
                   THEN nO + (CHOOSE k \in 1..n :
                                 /\ loaded[k].profType = t
                                 /\ loaded[k].isDefaultProfile
                                 /\ \A j \in (k + 1)..n :
                                       ~(loaded[j].profType = t /\ loaded[j].isDefaultProfile))
                   ELSE defaultProfileByType[t]]
        oldTypes == RefreshOldTypes(byType1, loaded)
        byType2 == [t \in DOMAIN byType1 \ oldTypes |-> byType1[t]]
        def2 == [t \in DOMAIN def1 \ oldTypes |-> def1[t]]
        hI2 == CheckMergingConfigAllProfiles(hO1, hI1, byType2, def2)
        hI3 == CheckForEnvVarAndUpdate(hO1, hI2, all1)
    IN Canon(hO1, hI3, all1, 0, byType2, def2)

(***************************************************************************)
(* Asynchronous calls.  An async method runs up to its first await, which   *)
(* is the readProfilesFromDisk of getProfileInfo, and returns a pending     *)
(* promise; the rest runs in later turns of the event loop, and other       *)
(* callbacks run in between.  The calls under way are a bag: which of them  *)
(* goes on next is decided by the disk reads they wait for, not by the      *)
(* order in which they were started.                                        *)
(***************************************************************************)

\* The code sets no limit to the calls under way; the model explores the
\* behaviours with at most this many of them at a time
MaxTasks == 3

\* A call under way: the method, where it stands, and its arguments and locals
Task(op, pc, args) == <<op, pc, args>>

\* The method of call t, where it stands, and its arguments and locals
Op(t) == t[1]
Pc(t) == t[2]
Args(t) == t[3]

\* The calls under way without call t
WithoutTask(t) == tasks (-) SetToBag({t})

\* The calls under way with call t gone on to u
WithTask(t, u) == WithoutTask(t) (+) SetToBag({u})

\* An async method is called: it runs up to the await of readProfilesFromDisk in
\* getProfileInfo
StartTask(op, args) ==
    /\ BagCardinality(tasks) < MaxTasks
    /\ tasks' = tasks (+) SetToBag({Task(op, "read", args)})

\* ProfilesCache.getProfileInfo() of call t after its await:
\* readProfilesFromDisk has read configuration c into the ProfileInfo the calls
\* share, checkForEnvVarAndUpdate runs on the cached profiles, and the caller
\* goes on in a later turn
GetProfileInfo(t, c) ==
    /\ t \in BagToSet(tasks)
    /\ Pc(t) = "read"
    /\ cfg' = c
    /\ heapI' = CheckForEnvVarAndUpdate(heapO, heapI, allProfiles)
    /\ tasks' = IF Op(t) = "getProfileInfo"
                THEN WithoutTask(t)
                ELSE WithTask(t, Task(Op(t), "body", Args(t)))
    /\ call' = Call("getProfileInfo", NoName, NoVal, FALSE, NoArgs, "return", 0, NoVal)
    /\ UNCHANGED <<heapO, allProfiles, minusOne, profilesByType, defaultProfileByType,
                   allTypes, allExternalTypes>>

\* The public getProfileInfo() is called by itself: it runs up to its await of
\* readProfilesFromDisk
GetProfileInfoCall ==
    /\ StartTask("getProfileInfo", NoArgs)
    /\ UNCHANGED <<cacheVars, call>>

\* readProfilesFromDisk of call t rejects: the ProfileInfo keeps the
\* configuration it held, checkForEnvVarAndUpdate does not run, and the call
\* rejects with the error; isCredentialsSecured catches it, logs it and returns
\* true
ReadProfilesFromDiskRejects(t) ==
    /\ t \in BagToSet(tasks)
    /\ Pc(t) = "read"
    /\ call' = IF Op(t) = "isCredentialsSecured"
               THEN Call(Op(t), NoName, NoVal, FALSE, NoArgs, "return", 0, TRUE)
               ELSE Call(Op(t), NoName, NoVal, FALSE, NoArgs, "throw", 0, "Error")
    /\ tasks' = WithoutTask(t)
    /\ UNCHANGED cacheVars

\* refresh(apiRegister) is called: it runs up to its await of getProfileInfo
RefreshCall ==
    /\ StartTask("refresh", NoArgs)
    /\ UNCHANGED <<cacheVars, call>>

\* The rest of refresh, once its getProfileInfo has returned: registeredApiTypes()
\* returns registeredTypes, and the cache is rebuilt from the configuration the
\* ProfileInfo holds now
RefreshBody(t, registeredTypes) ==
    /\ t \in BagToSet(tasks)
    /\ Op(t) = "refresh"
    /\ Pc(t) = "body"
    /\ SetCache(RefreshResult(cfg, registeredTypes))
    /\ allTypes' = RefreshTypes(registeredTypes, allExternalTypes)
    /\ call' = Call("refresh", NoName, NoVal, FALSE, NoArgs, "return", 0, registeredTypes)
    /\ tasks' = WithoutTask(t)
    /\ UNCHANGED <<cfg, allExternalTypes>>

\* Array.prototype.findIndex over allProfiles for the type and name of profileLoaded
\* (0: not found)
FindLoadedIndex(profileLoaded) ==
    LET Same(o) == heapO[o].type = profileLoaded.type /\ heapO[o].name = profileLoaded.name
    IN FindIndex(allProfiles, Same)

\* The update of the default without the comparison of the names
UpdatedDefaultsAnyName(profileLoaded, o) ==
    IF profileLoaded.type \in DOMAIN defaultProfileByType
    THEN [defaultProfileByType EXCEPT ![profileLoaded.type] = o]
    ELSE defaultProfileByType

\* defaultProfileByType after "if the default of the type has this name, set it to
\* object o"
UpdatedDefaults(profileLoaded, o) ==
    IF /\ profileLoaded.type \in DOMAIN defaultProfileByType
       /\ heapO[defaultProfileByType[profileLoaded.type]].name = profileLoaded.name
    THEN [defaultProfileByType EXCEPT ![profileLoaded.type] = o]
    ELSE defaultProfileByType

\* ProfilesCache.updateProfilesArrays(profileLoaded), profileLoaded a new object.
\* Without a match findIndex returns -1 and the assignment sets the property "-1" of
\* the array, which no iteration over the array visits.
UpdateProfilesArrays(profileLoaded) ==
    LET idx == FindLoadedIndex(profileLoaded)
        o == Len(heapO) + 1
        hO1 == Append(heapO, [name |-> profileLoaded.name, type |-> profileLoaded.type,
                              profile |-> Len(heapI) + 1])
        hI1 == Append(heapI, profileLoaded.profile)
        all1 == IF idx = 0 THEN allProfiles ELSE [allProfiles EXCEPT ![idx] = o]
        m1 == IF idx = 0 THEN o ELSE minusOne
    IN /\ SetCache(Canon(hO1, hI1, all1, m1, profilesByType,
                         UpdatedDefaults(profileLoaded, o)))
       /\ call' = Call("updateProfilesArrays", profileLoaded.name, profileLoaded.type, FALSE,
                       <<profileLoaded.profile>>, "return", idx, NoVal)
       /\ UNCHANGED <<cfg, allTypes, allExternalTypes>>

\* ProfilesCache.updateCachedProfile(profileLoaded) without a node, profileLoaded a
\* new object.  Without a match it reads this.allProfiles[-1]: a TypeError unless an
\* earlier updateProfilesArrays has set that property.
UpdateCachedProfile(profileLoaded) ==
    LET profIndex == FindLoadedIndex(profileLoaded)
        target == IF profIndex = 0 THEN minusOne ELSE allProfiles[profIndex]
        o == Len(heapO) + 1
        hO1 == Append([heapO EXCEPT ![target].profile = Len(heapI) + 1],
                      [name |-> profileLoaded.name, type |-> profileLoaded.type,
                       profile |-> Len(heapI) + 1])
        hI1 == Append(heapI, profileLoaded.profile)
    IN IF target = 0
       THEN /\ call' = Call("updateCachedProfile", profileLoaded.name, profileLoaded.type,
                            FALSE, <<profileLoaded.profile>>, "throw", 0, "TypeError")
            /\ UNCHANGED cacheVars
       ELSE /\ SetCache(Canon(hO1, hI1, allProfiles, minusOne, profilesByType,
                              UpdatedDefaults(profileLoaded, o)))
            /\ call' = Call("updateCachedProfile", profileLoaded.name, profileLoaded.type,
                            FALSE, <<profileLoaded.profile>>, "return", profIndex, NoVal)
            /\ UNCHANGED <<cfg, allTypes, allExternalTypes>>

\* loadNamedProfile without the test of the type
LoadNamedIndexAnyType(name, type) ==
    LET Match(o) == heapO[o].name = name
    IN FindIndex(allProfiles, Match)

\* loadNamedProfile going on to the last profile that matches
LoadNamedIndexLast(name, type) ==
    LET Match(o) == heapO[o].name = name /\ (~Truthy(type) \/ heapO[o].type = type)
        matches == {i \in 1..Len(allProfiles) : Match(allProfiles[i])}
    IN IF matches = {} THEN 0 ELSE CHOOSE i \in matches : \A j \in matches : j <= i

\* The position in allProfiles of the profile loadNamedProfile returns (0: none)
LoadNamedIndex(name, type) ==
    LET Match(o) == heapO[o].name = name /\ (~Truthy(type) \/ heapO[o].type = type)
    IN FindIndex(allProfiles, Match)

\* ProfilesCache.loadNamedProfile(name, type, optional)
LoadNamedProfile(name, type, optional) ==
    LET idx == LoadNamedIndex(name, type)
    IN /\ call' = IF idx # 0
                  THEN Call("loadNamedProfile", name, type, optional, NoArgs, "return", idx, NoVal)
                  ELSE IF ~optional
                  THEN Call("loadNamedProfile", name, type, optional, NoArgs, "throw", 0, "Error")
                  ELSE Call("loadNamedProfile", name, type, optional, NoArgs, "return", 0, NoVal)
       /\ UNCHANGED cacheVars

(***************************************************************************)
(* Inputs of the profile cache                                             *)
(***************************************************************************)

AbsentEntry == <<>>

TypedEntries(type, osLocs, argSet) ==
    {<<Entry(type, os, a, a)>> : os \in osLocs, a \in argSet}

\* The configurations with the given choices for zosmf1, lpar.zosmf and base and
\* the given default names; no other profile exists
ConfigsOf(z1, z2, b1, zDefaults, bDefaults) ==
    {[profiles |-> [n \in CfgNames |->
                      CASE n = Z1 -> e1 [] n = Z2 -> e2 [] n = B1 -> eb [] OTHER -> AbsentEntry],
      defaults |-> [t \in TypeNames |->
                      CASE t = "zosmf" -> dz [] t = "base" -> db [] OTHER -> NoName],
      secure |-> {}] :
        e1 \in z1, e2 \in z2, eb \in b1, dz \in zDefaults, db \in bDefaults}

EmptyConfig ==
    [profiles |-> [n \in CfgNames |-> AbsentEntry],
     defaults |-> [t \in TypeNames |-> NoName],
     secure |-> {}]

\* Merged attributes of a service profile and of a base profile
ZosmfPlain == Attrs("h1", "443", "$ZE_USER", "$ZE_PASS", NoVal, NoVal)
BaseApiml == Attrs("h1", "443", NoVal, NoVal, "apimlAuthenticationToken", "tok")

\* What the disk can hold when the cache reads it: either zosmf profile may be
\* missing, lpar.zosmf may have an empty osLoc, and the zosmf default may name
\* either profile or none
Configs ==
    ConfigsOf({AbsentEntry} \cup TypedEntries("zosmf", {TRUE}, {ZosmfPlain}),
              {AbsentEntry} \cup TypedEntries("zosmf", {TRUE, FALSE}, {ZosmfPlain}),
              {AbsentEntry},
              {NoName, Z1, Z2},
              {NoName})

\* What apiRegister.registeredApiTypes() can return
RegisteredTypes == {<<>>, <<"zosmf">>}

\* The types extenders register
ExternalTypes == {"zosmf"}

(***************************************************************************)
(* The profile cache under refresh                                         *)
(***************************************************************************)

CacheInit ==
    /\ cfg = EmptyConfig
    /\ heapO = <<>>
    /\ heapI = <<>>
    /\ allProfiles = <<>>
    /\ minusOne = 0
    /\ profilesByType = <<>>
    /\ defaultProfileByType = <<>>
    /\ allTypes = <<>>
    /\ allExternalTypes = <<>>
    /\ tasks = EmptyBag
    /\ call = Call("new", NoName, NoVal, FALSE, NoArgs, "return", 0, NoVal)

\* No debounced function has been called
DebounceInit ==
    /\ now = 0
    /\ timeoutId = 0
    /\ timers = {}
    /\ events = <<>>
    /\ promises = <<>>
    /\ running = {}

\* The data set tree of the unit tests: a session holding a partitioned data
\* set with one member and a VSAM data set, a favorited partitioned data set, and
\* a node under a parent that is no data set
Nodes == {"SESSION", "DS", "MEMB", "VSAM", "FAVPROFILE", "FAV", "JUNK", "CHILD"}

NoNode == "none"

DatasetAction(op, selection, node, answer, fs, progress, result, error, fsCalls, removed) ==
    [op |-> op, selection |-> selection, node |-> node, answer |-> answer, fs |-> fs,
     progress |-> progress, result |-> result, error |-> error,
     fsCalls |-> fsCalls, removeFavorite |-> removed,
     validProfile |-> NoVal, outcomes |-> <<>>, cancelAt |-> 0,
     calls |-> <<>>, results |-> <<>>]

\* No data set action has run
DatasetInit ==
    /\ tree = Nodes
    /\ mFavorites = {"FAV"}
    /\ gui = <<>>
    /\ del = DatasetAction("none", <<>>, NoNode, NoVal, NoVal, FALSE, "none", "", <<>>, <<>>)
    /\ zoom = [pc |-> "idle", text |-> "", profiles |-> <<>>, profile |-> NoVal,
               steps |-> <<>>, opened |-> {}]

\* No utility function has been called
FavIdle == fav = [lines |-> <<>>, parsed |-> FALSE, result |-> <<>>, warnings |-> <<>>]

ConcatIdle == concat = [parent |-> <<>>, nodes |-> <<>>, returned |-> FALSE, result |-> <<>>]

\* The instances of ProfilesCache
Instances == {1, 2}

\* No profile type meta-data has been added
TypeConfigsInit ==
    typeConfigs = [session |-> <<>>, instance |-> [i \in Instances |-> <<>>],
                   added |-> <<>>]

\* The profile that logs in and out
LoginNames == {"base"}

\* The configuration file stores no token for a profile, and no login or logout
\* has made an update
StoredInit ==
    stored = [tokens |-> [n \in LoginNames |-> [tokenType |-> NoVal, tokenValue |-> NoVal]],
              op |-> "none", kind |-> "return", profile |-> "base",
              upd |-> [tokenType |-> NoVal, tokenValue |-> NoVal]]

\* handleProfileChange has not been called
ChangeIdle ==
    change = [providers |-> <<>>, pc |-> 0, returned |-> FALSE, called |-> {},
              logged |-> <<>>, thrown |-> FALSE]

UtilInit == FavIdle /\ ConcatIdle /\ TypeConfigsInit /\ StoredInit /\ ChangeIdle

Init == CacheInit /\ DebounceInit /\ DatasetInit /\ UtilInit

Next ==
    \/ RefreshCall /\ UNCHANGED <<debounceVars, datasetVars, utilVars>>
    \/ (\E t \in BagToSet(tasks), c \in Configs : GetProfileInfo(t, c))
          /\ UNCHANGED <<debounceVars, datasetVars, utilVars>>
    \/ (\E t \in BagToSet(tasks) : ReadProfilesFromDiskRejects(t))
          /\ UNCHANGED <<debounceVars, datasetVars, utilVars>>
    \/ (\E t \in BagToSet(tasks), r \in RegisteredTypes : RefreshBody(t, r)) /\ UNCHANGED <<debounceVars, datasetVars, utilVars>>
    \/ (\E t \in ExternalTypes : RegisterCustomProfilesType(t)) /\ UNCHANGED <<tasks, debounceVars, datasetVars, utilVars>>
    \/ CheckForEnvVarAndUpdateCall
          /\ UNCHANGED <<tasks, debounceVars, datasetVars, utilVars>>

Spec == Init /\ [][Next]_vars

(***************************************************************************)
(* Claims about refresh                                                    *)
(***************************************************************************)

\* The default of type T names a profile of getProfiles(T)
DefaultIsLoaded(T) ==
    \E k \in 1..Len(GetProfiles(T)) :
        /\ GetProfiles(T)[k].name = GetDefaultProfile(T)[1].name
        /\ GetProfiles(T)[k].type = GetDefaultProfile(T)[1].type

\* The configuration the last refresh has seen marks the default of type T as the
\* default of T
DefaultIsConfigured(T) ==
    /\ GetDefaultProfile(T)[1].type = T
    /\ cfg.defaults[T] = GetDefaultProfile(T)[1].name

\* C1: after any sequence of refresh calls, for every profile type T,
\* getDefaultProfile(T) is undefined or has the name and type of a profile that the
\* most recent refresh loaded for T and that the configuration marks as the default
\* of T; it never names a profile that is absent from getProfiles(T).  (With no
\* call under way the configuration is the one the last refresh has seen.)
C1_DefaultNamesLoadedDefault ==
    tasks = EmptyBag =>
        \A T \in TypeNames :
            \/ GetDefaultProfile(T) = <<>>
            \/ (DefaultIsLoaded(T) /\ DefaultIsConfigured(T))

(***************************************************************************)
(* The profile cache under refresh, with the attributes that decide        *)
(* whether a token is removed                                              *)
(***************************************************************************)

\* Merged attributes of the service profile: host and port like or unlike the base
\* profile's, with and without user and password, with an APIML token, with
\* another token and with none
TokenServiceArgs ==
    {Attrs("h1", "443", NoVal, NoVal, "apimlAuthenticationToken", "tok"),
     Attrs("h1", "443", "ibmuser", "pw", "apimlAuthenticationToken", "tok"),
     Attrs("h1", "443", "ibmuser", NoVal, "apimlAuthenticationToken.1", "tok"),
     Attrs("h2", "443", "$ZE_USER", "$ZE_PASS", "apimlAuthenticationToken.1", "tok"),
     Attrs("h1", "7554", NoVal, NoVal, "apimlAuthenticationToken", "tok"),
     Attrs("h2", "443", NoVal, NoVal, "jwtToken", "tok"),
     Attrs("h2", NoVal, NoVal, NoVal, "apimlAuthenticationToken", "tok"),
     Attrs(NoVal, "443", "ibmuser", "pw", "apimlAuthenticationToken", "tok"),
     Attrs("h2", "443", "ibmuser", "pw", NoVal, NoVal)}

\* Merged attributes of the base profile: with host and port, with a port only,
\* with neither
TokenBaseArgs ==
    {Attrs("h1", "443", NoVal, NoVal, "apimlAuthenticationToken", "tok"),
     Attrs(NoVal, "443", NoVal, NoVal, "apimlAuthenticationToken", "tok"),
     Attrs(NoVal, NoVal, NoVal, NoVal, "apimlAuthenticationToken", "tok")}

\* The service profile zosmf1 with a base profile that is the default or not, or
\* with no base profile
TokenConfigs ==
    ConfigsOf(TypedEntries("zosmf", {TRUE}, TokenServiceArgs),
              {AbsentEntry},
              TypedEntries("base", {TRUE}, TokenBaseArgs),
              {Z1},
              {NoName, B1})
    \cup ConfigsOf(TypedEntries("zosmf", {TRUE}, TokenServiceArgs),
                   {AbsentEntry}, {AbsentEntry}, {Z1}, {NoName})

NextTokens ==
    \/ RefreshCall /\ UNCHANGED <<debounceVars, datasetVars, utilVars>>
    \/ (\E t \in BagToSet(tasks), c \in TokenConfigs : GetProfileInfo(t, c))
          /\ UNCHANGED <<debounceVars, datasetVars, utilVars>>
    \/ (\E t \in BagToSet(tasks) : ReadProfilesFromDiskRejects(t))
          /\ UNCHANGED <<debounceVars, datasetVars, utilVars>>
    \/ (\E t \in BagToSet(tasks) : RefreshBody(t, <<"zosmf">>)) /\ UNCHANGED <<debounceVars, datasetVars, utilVars>>

SpecTokens == Init /\ [][NextTokens]_vars

\* The cached profiles: the entries of allProfiles and of every getProfiles list
CachedProfiles ==
    {Loaded(allProfiles[k]) : k \in 1..Len(allProfiles)}
    \cup UNION {Range(GetProfiles(T)) : T \in TypeNames}

\* The attributes the last refresh merged for the profile named n
MergedOf(n) == EntryOf(cfg, n).args

Has(v) == v # NoVal /\ v # "" /\ v # "0"

\* The condition of C2 for merged attributes m and the cached default base profile
TokenMustGo(m) ==
    LET base == GetDefaultProfile("base")
    IN /\ base # <<>>
       /\ (Has(base[1].profile.host) \/ Has(base[1].profile.port))
       /\ (Has(m.host) /\ Has(m.port))
       /\ \/ m.host # base[1].profile.host
          \/ m.port # base[1].profile.port
          \/ (Has(m.user) /\ Has(m.password))
       /\ m.tokenType \in {"apimlAuthenticationToken", "apimlAuthenticationToken.1"}

\* C2: when refresh completes, a cached profile has tokenType and tokenValue
\* cleared if and only if, as merged, the cached default base profile has a host or
\* a port, the profile has both host and port, its host or port differs from the
\* base profile's or it has both user and password, and its tokenType starts with
\* the APIML token type; every other profile keeps its merged tokenType and
\* tokenValue.
C2_TokenClearedIffConflict ==
    (call.op = "refresh" /\ call.kind = "return") =>
        \A P \in CachedProfiles :
            IF TokenMustGo(MergedOf(P.name))
            THEN P.profile.tokenType = NoVal /\ P.profile.tokenValue = NoVal
            ELSE /\ P.profile.tokenType = MergedOf(P.name).tokenType
                 /\ P.profile.tokenValue = MergedOf(P.name).tokenValue

\* A refresh has cleared the APIML token of a service profile whose host differs
\* from the base profile's, and kept the base profile's own token
C2_Witness ==
    /\ call.op = "refresh"
    /\ call.kind = "return"
    /\ \E P \in CachedProfiles :
          /\ P.type = "zosmf"
          /\ MergedOf(P.name).tokenType = "apimlAuthenticationToken.1"
          /\ MergedOf(P.name).host = "h2"
          /\ P.profile.tokenType = NoVal
          /\ P.profile.tokenValue = NoVal
    /\ \E B \in CachedProfiles :
          B.type = "base" /\ B.profile.tokenValue = "tok"

(***************************************************************************)
(* fetchBaseProfile                                                        *)
(***************************************************************************)

\* config.api.profiles.getProfilePathFromName: "lpar.sub" is
\* "profiles.lpar.profiles.sub"
GetProfilePathFromName(name) ==
    Flatten([i \in 1..Len(name) |-> <<"profiles", name[i]>>])

\* config.api.secure.secureFields(): the paths of the secure properties.  The
\* model's only secure property is tokenValue, on the profiles of c.secure.
SecureFields(c) ==
    {GetProfilePathFromName(n) \o <<"properties", "tokenValue">> : n \in c.secure}

\* config.api.secure.securePropsForProfile(name).includes("tokenValue"): the
\* profile or one of the profiles it is nested in lists tokenValue as secure
SecurePropsIncludeToken(c, name) ==
    \E k \in 1..Len(name) :
        (GetProfilePathFromName(SubSeq(name, 1, k)) \o <<"properties", "tokenValue">>)
            \in SecureFields(c)

\* config.api.profiles.get(name): <<properties>>, or <<>> for null
ApiProfilesGet(c, name) ==
    IF Present(c, name) THEN <<EntryOf(c, name).props>> ELSE <<>>

\* profileName.slice(0, profileName.lastIndexOf("."))
DropLastSegment(name) == SubSeq(name, 1, Len(name) - 1)

\* getParentProfileForToken without the break: the search goes on to the outermost
\* profile that stores the token
RECURSIVE ParentSearchNoBreak(_, _, _)
ParentSearchNoBreak(c, tempProfile, parentProfile) ==
    IF Len(tempProfile) <= 1 THEN parentProfile
    ELSE LET t == DropLastSegment(tempProfile)
         IN IF (GetProfilePathFromName(t) \o <<"properties", "tokenValue">>) \in SecureFields(c)
            THEN ParentSearchNoBreak(c, t, t)
            ELSE ParentSearchNoBreak(c, t, parentProfile)

\* The while loop of ProfilesCache.getParentProfileForToken
RECURSIVE ParentSearch(_, _, _)
ParentSearch(c, tempProfile, parentProfile) ==
    IF Len(tempProfile) <= 1 THEN parentProfile
    ELSE LET t == DropLastSegment(tempProfile)
         IN IF (GetProfilePathFromName(t) \o <<"properties", "tokenValue">>) \in SecureFields(c)
            THEN t
            ELSE ParentSearch(c, t, parentProfile)

\* ProfilesCache.getParentProfileForToken
GetParentProfileForToken(profileName, c) ==
    ParentSearch(c, profileName, DropLastSegment(profileName))

\* What ProfilesCache.fetchBaseProfile(profileName) returns on configuration c:
\* <<[name, type, profile]>>, or <<>> for undefined.  profile is <<IProfile>>, or
\* <<>> when config.api.profiles.get returned null.
FetchBaseResult(c, profileName) ==
    LET baseProfileAttrs == GetDefaultConfigProfile(c, "base")
    IN IF /\ Len(profileName) > 1
          /\ (baseProfileAttrs = <<>>
                \/ ~SecurePropsIncludeToken(c, baseProfileAttrs[1].profName))
       THEN LET parentProfile == GetParentProfileForToken(profileName, c)
            IN <<GetProfileLoaded(parentProfile, "base", ApiProfilesGet(c, parentProfile))>>
       ELSE IF baseProfileAttrs = <<>>
       THEN <<>>
       ELSE <<GetProfileLoaded(baseProfileAttrs[1].profName, baseProfileAttrs[1].profType,
                               <<GetMergedAttrs(c, baseProfileAttrs[1])>>)>>

\* ProfilesCache.fetchBaseProfile(profileName) is called
FetchBaseProfileCall(profileName) ==
    /\ StartTask("fetchBaseProfile", profileName)
    /\ UNCHANGED <<cacheVars, call>>

\* The body of ProfilesCache.fetchBaseProfile, after await this.getProfileInfo():
\* it reads the configuration the ProfileInfo holds by then
FetchBaseProfile(t) ==
    /\ t \in BagToSet(tasks)
    /\ Op(t) = "fetchBaseProfile"
    /\ Pc(t) = "body"
    /\ call' = Call("fetchBaseProfile", Args(t), NoVal, FALSE, NoArgs, "return", 0,
                    FetchBaseResult(cfg, Args(t)))
    /\ tasks' = WithoutTask(t)
    /\ UNCHANGED cacheVars

\* Properties of the groups and of the base profile, and the base profile's merged
\* attributes (the merge adds the secure token)
GroupProps == Attrs("h2", "7554", NoVal, NoVal, NoVal, NoVal)
BaseProps == Attrs("h1", "443", NoVal, NoVal, "apimlAuthenticationToken", NoVal)

\* Configurations with the groups lpar and lpar.sub present or not, a base profile
\* present or not and default or not, and tokenValue secure in any of the three
AllBaseConfigs ==
    {[profiles |-> [n \in CfgNames |->
                      CASE n = LPAR -> el
                        [] n = LPARSUB -> es
                        [] n = B1 -> eb
                        [] n \in {Z2, Z3} -> <<Entry("zosmf", TRUE, ZosmfPlain, ZosmfPlain)>>
                        [] OTHER -> AbsentEntry],
      defaults |-> [t \in TypeNames |-> IF t = "base" THEN db ELSE NoName],
      secure |-> sec] :
        el \in {AbsentEntry, <<Entry(NoVal, TRUE, GroupProps, GroupProps)>>},
        es \in {AbsentEntry, <<Entry(NoVal, TRUE, GroupProps, GroupProps)>>},
        eb \in {AbsentEntry, <<Entry("base", TRUE, BaseApiml, BaseProps)>>},
        db \in {NoName, B1},
        sec \in SUBSET {B1, LPAR, LPARSUB}}

\* What the disk can hold when fetchBaseProfile reads it: the secure properties
\* are listed in the profile they belong to, so that only a profile that is present
\* has one
BaseConfigs == {c \in AllBaseConfigs : \A n \in c.secure : Present(c, n)}

\* The names passed to fetchBaseProfile; NoName is a call without a name
FetchNames == {NoName, Z1, Z2, Z3}

NextFetchBase ==
    \/ (\E n \in FetchNames : FetchBaseProfileCall(n)) /\ UNCHANGED <<debounceVars, datasetVars, utilVars>>
    \/ (\E t \in BagToSet(tasks), c \in BaseConfigs : GetProfileInfo(t, c))
          /\ UNCHANGED <<debounceVars, datasetVars, utilVars>>
    \/ (\E t \in BagToSet(tasks) : ReadProfilesFromDiskRejects(t))
          /\ UNCHANGED <<debounceVars, datasetVars, utilVars>>
    \/ (\E t \in BagToSet(tasks) : FetchBaseProfile(t)) /\ UNCHANGED <<debounceVars, datasetVars, utilVars>>

SpecFetchBase == Init /\ [][NextFetchBase]_vars

\* The default base profile of the configuration with its merged attributes, as
\* fetchBaseProfile returns it; <<>> when the configuration has no default base profile
DefaultBaseLoaded ==
    IF cfg.defaults["base"] # NoName
       /\ Present(cfg, cfg.defaults["base"])
       /\ EntryOf(cfg, cfg.defaults["base"]).type = "base"
    THEN <<[name |-> cfg.defaults["base"], type |-> "base",
            profile |-> <<EntryOf(cfg, cfg.defaults["base"]).args>>]>>
    ELSE <<>>

\* tokenValue is a secure property of the default base profile
BaseStoresToken ==
    DefaultBaseLoaded # <<>> /\ DefaultBaseLoaded[1].name \in cfg.secure

\* The ancestors of a nested name: its proper, non-empty prefixes
Ancestors(name) == {SubSeq(name, 1, k) : k \in 1..(Len(name) - 1)}

\* The profile a nested name logs in to: the innermost ancestor that lists
\* tokenValue as secure, or the immediate parent when no ancestor does
TokenParent(name) ==
    LET holders == Ancestors(name) \cap cfg.secure
    IN IF holders = {} THEN SubSeq(name, 1, Len(name) - 1)
       ELSE CHOOSE a \in holders : \A b \in holders : Len(b) <= Len(a)

\* The part of C3 about names that are not nested and about a default base
\* profile that stores the token
FetchBaseOfDefault ==
    (Len(call.name) <= 1 \/ BaseStoresToken) => call.value = DefaultBaseLoaded

\* C3 as stated: for a nested name the parent profile is returned as a profile of
\* type "base" unless tokenValue is a secure property of the default base profile;
\* otherwise the default base profile with merged attributes, or undefined when
\* there is none.
C3_FetchBaseReturnsParent ==
    (call.op = "fetchBaseProfile" /\ call.kind = "return") =>
        /\ (Len(call.name) > 1 /\ ~BaseStoresToken) =>
              /\ call.value # <<>>
              /\ call.value[1].type = "base"
              /\ call.value[1].name = SubSeq(call.name, 1, Len(call.name) - 1)
        /\ FetchBaseOfDefault

\* C3 amended: for a nested name the profile returned is the innermost ancestor
\* that lists tokenValue as secure, or the immediate parent when no ancestor does,
\* as a profile of type "base" with that profile's properties, unless tokenValue is
\* a secure property of the default base profile; otherwise the default base
\* profile with merged attributes, or undefined when there is none.
C3_FetchBaseReturnsTokenParent ==
    (call.op = "fetchBaseProfile" /\ call.kind = "return") =>
        /\ (Len(call.name) > 1 /\ ~BaseStoresToken) =>
              /\ call.value # <<>>
              /\ call.value[1].type = "base"
              /\ call.value[1].name = TokenParent(call.name)
              /\ call.value[1].profile =
                    (IF Present(cfg, TokenParent(call.name))
                     THEN <<EntryOf(cfg, TokenParent(call.name)).props>>
                     ELSE <<>>)
        /\ FetchBaseOfDefault

\* fetchBaseProfile("lpar.sub.zosmf") has returned lpar: lpar.sub does not store
\* the token, lpar does
C3_Witness ==
    /\ call.op = "fetchBaseProfile"
    /\ call.name = Z3
    /\ cfg.secure = {LPAR}
    /\ call.value # <<>>
    /\ call.value[1].name = LPAR
    /\ call.value[1].type = "base"

(***************************************************************************)
(* The profile cache under refresh and updates                             *)
(***************************************************************************)

\* Configurations with base, zosmf1 and lpar.zosmf present, and either zosmf
\* profile the default
UpdateConfigs ==
    ConfigsOf(TypedEntries("zosmf", {TRUE}, {ZosmfPlain}),
              TypedEntries("zosmf", {TRUE}, {ZosmfPlain}),
              TypedEntries("base", {TRUE}, {BaseApiml}),
              {Z1, Z2},
              {B1})

\* The profiles callers pass to updateProfilesArrays and updateCachedProfile; the
\* user of one names an environment variable
UpdateProfiles ==
    {GetProfileLoaded(n, t, Attrs("h9", "443", "ibmuser", "pw", NoVal, NoVal)) :
        n \in {Z1, B1}, t \in {"zosmf", "base"}}
    \cup {GetProfileLoaded(Z1, "zosmf", Attrs("h9", "443", "$ZE_USER", "pw", NoVal, NoVal))}

NextUpdate ==
    \/ RefreshCall /\ UNCHANGED <<debounceVars, datasetVars, utilVars>>
    \/ (\E t \in BagToSet(tasks), c \in UpdateConfigs : GetProfileInfo(t, c))
          /\ UNCHANGED <<debounceVars, datasetVars, utilVars>>
    \/ (\E t \in BagToSet(tasks) : ReadProfilesFromDiskRejects(t))
          /\ UNCHANGED <<debounceVars, datasetVars, utilVars>>
    \/ (\E t \in BagToSet(tasks) : RefreshBody(t, <<"zosmf">>)) /\ UNCHANGED <<debounceVars, datasetVars, utilVars>>
    \/ (\E p \in UpdateProfiles : UpdateProfilesArrays(p)) /\ UNCHANGED <<tasks, debounceVars, datasetVars, utilVars>>
    \/ (\E p \in UpdateProfiles : UpdateCachedProfile(p)) /\ UNCHANGED <<tasks, debounceVars, datasetVars, utilVars>>
    \/ CheckForEnvVarAndUpdateCall
          /\ UNCHANGED <<tasks, debounceVars, datasetVars, utilVars>>

SpecUpdate == Init /\ [][NextUpdate]_vars

\* allProfiles and the default-profile map as values
AllProfilesValues == [k \in 1..Len(allProfiles) |-> Loaded(allProfiles[k])]

DefaultValues == [T \in TypeNames |-> GetDefaultProfile(T)]

\* The position in allProfiles of the profile with this name and type (0: none)
PositionOf(name, type) ==
    IF \E i \in 1..Len(allProfiles) :
          AllProfilesValues[i].name = name /\ AllProfilesValues[i].type = type
    THEN CHOOSE i \in 1..Len(allProfiles) :
          AllProfilesValues[i].name = name /\ AllProfilesValues[i].type = type
    ELSE 0

\* The profile passed to the last update
CallProfile(c) == [name |-> c.name, type |-> c.type, profile |-> c.profile[1]]

\* C5: updateProfilesArrays(p) and updateCachedProfile(p), for a profile whose
\* name and type are present in allProfiles, update exactly that entry of
\* allProfiles with p's data, replace the default profile of p.type with p if and
\* only if the current default of that type has p's name, and leave every other
\* entry of allProfiles, its length and the defaults of all other types unchanged.
C5_UpdateTouchesOneEntry ==
    [][(/\ call'.op \in {"updateProfilesArrays", "updateCachedProfile"}
        /\ PositionOf(call'.name, call'.type) # 0) =>
          LET i == PositionOf(call'.name, call'.type)
              p == CallProfile(call')
          IN /\ Len(allProfiles') = Len(allProfiles)
             /\ AllProfilesValues'[i] = p
             /\ \A j \in 1..Len(allProfiles) : j # i => AllProfilesValues'[j] = AllProfilesValues[j]
             /\ DefaultValues'[p.type] =
                   (IF DefaultValues[p.type] # <<>> /\ DefaultValues[p.type][1].name = p.name
                    THEN <<p>>
                    ELSE DefaultValues[p.type])
             /\ \A T \in TypeNames : T # p.type => DefaultValues'[T] = DefaultValues[T]]_vars

\* updateCachedProfile has replaced the data of the cached default zosmf profile
\* and the default itself, while another zosmf profile is cached
C5_Witness ==
    /\ call.op = "updateCachedProfile"
    /\ call.kind = "return"
    /\ call.index # 0
    /\ Len(allProfiles) = 3
    /\ AllProfilesValues[call.index] = CallProfile(call)
    /\ DefaultValues[call.type] = <<CallProfile(call)>>
    /\ call.type = "zosmf"


\* ---------------------------------------------------------------------------
\* SharedUtils.debounce and SharedUtils.debounceAsync
\* ---------------------------------------------------------------------------

\* The delay the debounced functions are created with, in milliseconds
Delay == 2

\* The clock stops here
MaxTime == 5

\* The debounced function is called at most this many times
MaxCalls == 3

\* The arguments a debounced function is called with
DebounceArgs == {"a", "b"}

\* The outcomes of the asynchronous callback
Outcomes == {"fulfilled", "rejected"}

Event(kind, time, args, k) == [kind |-> kind, time |-> time, args |-> args, call |-> k]

\* The calls of the debounced function so far, in order
Calls == SelectSeq(events, LAMBDA e : e.kind = "call")

\* The invocations of the callback so far, in order
Invocations == SelectSeq(events, LAMBDA e : e.kind = "invoke")

\* The millisecond clock can show this much less than delay ms since the call of
\* setTimeout when the handler runs: the event loop measures the delay from its
\* own time, which it last updated before the call
TimerEarly == 1

\* setTimeout(handler, delay): the handler is due delay ms from now
SetTimeout(ts, id, args, k) ==
    ts \cup {[id |-> id, due |-> now + Delay, args |-> args, call |-> k]}

\* A debounced function that never clears its timer
ClearTimeoutIgnored(ts, id) == ts

\* clearTimeout(id): the timer does not run; nothing happens if it has run already
ClearTimeout(ts, id) == {t \in ts : t.id # id}

\* The timers left by: if (timeoutId) { clearTimeout(timeoutId); }
AfterClear == IF timeoutId # 0 THEN ClearTimeout(timers, timeoutId) ELSE timers

\* The function returned by debounce is called with args
DebouncedCall(args) ==
    /\ Len(Calls) < MaxCalls
    /\ timeoutId' = timeoutId + 1
    /\ timers' = SetTimeout(AfterClear, timeoutId + 1, args, Len(Calls) + 1)
    /\ events' = Append(events, Event("call", now, args, Len(Calls) + 1))
    /\ UNCHANGED <<now, promises, running>>

\* The event loop runs a timer that is due, which the millisecond clock can show
\* as TimerEarly ms before its time: () => callback(...args)
TimerRuns(t) ==
    /\ t \in timers
    /\ now + TimerEarly >= t.due
    /\ timers' = timers \ {t}
    /\ events' = Append(events, Event("invoke", now, t.args, t.call))
    /\ UNCHANGED <<now, timeoutId, promises, running>>

\* A millisecond passes; a timer that is due may still be waiting for the event loop
Tick ==
    /\ now < MaxTime
    /\ now' = now + 1
    /\ UNCHANGED <<timeoutId, timers, events, promises, running>>

\* The function returned by debounceAsync is called with args: it returns a new
\* promise whose executor schedules the timer
DebouncedAsyncCall(args) ==
    /\ Len(Calls) < MaxCalls
    /\ timeoutId' = timeoutId + 1
    /\ timers' = SetTimeout(AfterClear, timeoutId + 1, args, Len(Calls) + 1)
    /\ events' = Append(events, Event("call", now, args, Len(Calls) + 1))
    /\ promises' = Append(promises, "pending")
    /\ UNCHANGED <<now, running>>

\* The event loop runs a timer that is due, which the millisecond clock can show
\* as TimerEarly ms before its time: callback(...args).then(resolve, reject)
AsyncTimerRuns(t) ==
    /\ t \in timers
    /\ now + TimerEarly >= t.due
    /\ timers' = timers \ {t}
    /\ events' = Append(events, Event("invoke", now, t.args, t.call))
    /\ running' = running \cup {t.call}
    /\ UNCHANGED <<now, timeoutId, promises>>

\* The promise of the callback started for call k settles, and resolve or reject
\* settles the promise that call returned
CallbackSettles(k, outcome) ==
    /\ k \in running
    /\ running' = running \ {k}
    /\ promises' = [promises EXCEPT ![k] = outcome]
    /\ UNCHANGED <<now, timeoutId, timers, events>>

NextDebounce ==
    \/ (\E a \in DebounceArgs : DebouncedCall(a)) /\ UNCHANGED <<cacheVars, call, tasks, datasetVars, utilVars>>
    \/ (\E t \in timers : TimerRuns(t)) /\ UNCHANGED <<cacheVars, call, tasks, datasetVars, utilVars>>
    \/ Tick /\ UNCHANGED <<cacheVars, call, tasks, datasetVars, utilVars>>

SpecDebounce == Init /\ [][NextDebounce]_vars

NextDebounceAsync ==
    \/ (\E a \in DebounceArgs : DebouncedAsyncCall(a)) /\ UNCHANGED <<cacheVars, call, tasks, datasetVars, utilVars>>
    \/ (\E t \in timers : AsyncTimerRuns(t)) /\ UNCHANGED <<cacheVars, call, tasks, datasetVars, utilVars>>
    \/ (\E k \in running, o \in Outcomes : CallbackSettles(k, o))
          /\ UNCHANGED <<cacheVars, call, tasks, datasetVars, utilVars>>
    \/ Tick /\ UNCHANGED <<cacheVars, call, tasks, datasetVars, utilVars>>

SpecDebounceAsync == Init /\ [][NextDebounceAsync]_vars


\* The position in events of the most recent call before position j (0: none)
LastCallBefore(j) ==
    IF \E i \in 1..(j - 1) : events[i].kind = "call"
    THEN CHOOSE i \in 1..(j - 1) :
            /\ events[i].kind = "call"
            /\ \A m \in (i + 1)..(j - 1) : events[m].kind # "call"
    ELSE 0

\* Every invocation of the callback comes at least `least` ms after the most
\* recent call, and has the arguments of that call
InvokedAfter(least) ==
    \A j \in 1..Len(events) :
        events[j].kind = "invoke" =>
            /\ LastCallBefore(j) # 0
            /\ events[j].time - events[LastCallBefore(j)].time >= least
            /\ events[j].args = events[LastCallBefore(j)].args
            /\ events[j].call = events[LastCallBefore(j)].call

\* Call k opens a burst: it is the first call, or it comes Delay ms or more after
\* the call before it
OpensBurst(k) == k = 1 \/ Calls[k].time - Calls[k - 1].time >= Delay

\* The calls of the burst that call k opens
BurstOf(k) ==
    {m \in k..Len(Calls) : \A n \in (k + 1)..m : ~OpensBurst(n)}

\* C6 (as claimed): the function returned by SharedUtils.debounce(callback, delay)
\* invokes the callback only once delay ms have passed since the most recent call
\* with no call in between, with the arguments of that call, and every burst of
\* calls, each separated from the next by less than delay, causes exactly one
\* invocation: the burst has been followed by its one invocation or still has it
\* scheduled.
C6_OneInvocationPerBurst ==
    /\ InvokedAfter(Delay)
    /\ \A k \in 1..Len(Calls) :
          OpensBurst(k) =>
             Cardinality({j \in 1..Len(events) :
                             events[j].kind = "invoke" /\ events[j].call \in BurstOf(k)})
               + Cardinality({t \in timers : t.call \in BurstOf(k)}) = 1

\* C6 (amended): the callback is invoked only once the timer of the most recent
\* call has come due with no call in between, which the millisecond clock shows
\* as delay ms after that call or up to TimerEarly ms less, with the arguments of
\* that call, and the calls made since the callback last ran cause exactly one
\* invocation: each invocation directly follows the call it serves, and exactly
\* the last call has its invocation scheduled until then. A call that comes
\* before the timer of the previous call has run replaces that timer, however
\* long ago that call was.
C6_OneInvocationPerPendingRun ==
    /\ InvokedAfter(Delay - TimerEarly)
    /\ \A j \in 1..Len(events) :
          events[j].kind = "invoke" => (j > 1 /\ events[j - 1].kind = "call")
    /\ IF events # <<>> /\ events[Len(events)].kind = "call"
       THEN /\ Cardinality(timers) = 1
            /\ \A t \in timers : /\ t.call = events[Len(events)].call
                                 /\ t.args = events[Len(events)].args
                                 /\ t.due = events[Len(events)].time + Delay
       ELSE timers = {}

\* Two calls with different arguments less than Delay apart have been followed by
\* one invocation, with the arguments of the second call
C6_Witness ==
    /\ Len(events) = 3
    /\ events[1].kind = "call" /\ events[2].kind = "call" /\ events[3].kind = "invoke"
    /\ events[2].time - events[1].time < Delay
    /\ events[1].args # events[2].args
    /\ events[3].args = events[2].args
    /\ timers = {}

\* C7 (as claimed): every call of the function returned by
\* SharedUtils.debounceAsync(callback, delay) returns a promise that is eventually
\* settled, fulfilled or rejected, including the calls that are followed by
\* another call before delay has elapsed: a promise that is still pending has its
\* timer scheduled or its callback in flight, the only two things that settle it.
C7_EveryPromiseSettles ==
    \A k \in 1..Len(promises) :
        promises[k] = "pending" =>
            \/ k \in running
            \/ \E t \in timers : t.call = k


\* ---------------------------------------------------------------------------
\* DatasetActions.deleteDatasetPrompt and DatasetActions.deleteDataset, as their
\* unit tests describe them
\* ---------------------------------------------------------------------------

\* A selection holds at most this many nodes
MaxSelection == 3

\* The nodes a user can select in the tree view
Selectable == {"SESSION", "DS", "MEMB", "VSAM", "FAV", "CHILD"}

GetParent(n) ==
    CASE n = "DS" -> "SESSION"
      [] n = "MEMB" -> "DS"
      [] n = "VSAM" -> "SESSION"
      [] n = "FAV" -> "FAVPROFILE"
      [] n = "JUNK" -> "SESSION"
      [] n = "CHILD" -> "JUNK"
      [] OTHER -> NoNode

ContextValue(n) ==
    CASE n = "SESSION" -> "session"
      [] n = "DS" -> "pds"
      [] n = "MEMB" -> "member"
      [] n = "VSAM" -> "vsam"
      [] n = "FAVPROFILE" -> "profile_fav"
      [] n = "FAV" -> "pds_fav"
      [] n = "JUNK" -> "junk"
      [] n = "CHILD" -> "member"
      [] OTHER -> NoVal

GetLabel(n) ==
    CASE n = "DS" -> "HLQ.TEST.DS"
      [] n = "MEMB" -> "MEMB"
      [] n = "VSAM" -> "HLQ.TEST.VSAM"
      [] n = "FAV" -> "HLQ.TEST.FAV"
      [] n = "JUNK" -> "parent"
      [] n = "CHILD" -> "child"
      [] OTHER -> n

IsSession(n) == ContextValue(n) = "session"

IsDsMember(n) == ContextValue(n) = "member"

\* The name a node is listed under: PARENT(MEMBER) for a member, the label otherwise
DisplayName(n) ==
    IF IsDsMember(n) THEN GetLabel(GetParent(n)) \o "(" \o GetLabel(n) \o ")" ELSE GetLabel(n)

\* The listed names in the order localeCompare sorts them
NameOrder == <<"HLQ.TEST.DS", "HLQ.TEST.DS(MEMB)", "HLQ.TEST.FAV", "HLQ.TEST.VSAM", "parent(child)">>

\* These nodes in the order of their names
SortByName(ns) ==
    Flatten([i \in 1..Len(NameOrder) |->
        SelectSeq(ns, LAMBDA n : DisplayName(n) = NameOrder[i])])

\* A selection that keeps the members whose data set is selected too
NodesToDeleteWithMembers(selection) ==
    SelectSeq(selection, LAMBDA n : ~IsSession(n))

\* The nodes of the selection that are to be deleted: no session, and no member
\* whose data set is in the selection
NodesToDelete(selection) ==
    SelectSeq(selection, LAMBDA n :
        /\ ~IsSession(n)
        /\ ~(IsDsMember(n) /\ GetParent(n) \in Range(selection)))

\* A prompt that goes on unless the user has pressed Cancel
ConfirmedUnlessCancel(answer) == answer # "Cancel"

\* The user has answered the modal confirmation with the Delete button
Confirmed(answer) == answer = "Delete"

\* A deletion that takes every node for valid
IsValidNodeAlways(n) == TRUE

\* The node can be deleted: its parent is a session, a favorites profile or a
\* partitioned data set
IsValidNode(n) ==
    ContextValue(GetParent(n)) \in {"session", "profile_fav", "pds", "pds_fav"}

\* The node and the members under it
WithMembers(ns) == ns \cup {m \in Nodes : GetParent(m) \in ns}

Message(kind, message, count, names) ==
    [kind |-> kind, message |-> message, count |-> count, names |-> names]

\* Gui.warningMessage(..., { items: ["Delete"], vsCodeOpts: { modal: true } })
ConfirmationMessage(ns) ==
    Message("warningMessage", "Are you sure you want to delete the following {0} item(s)?",
            Len(ns), [i \in 1..Len(ns) |-> DisplayName(SortByName(ns)[i])])

DeletedMessage(ns) ==
    Message("showMessage", "The following {0} item(s) were deleted:",
            Len(ns), [i \in 1..Len(ns) |-> DisplayName(SortByName(ns)[i])])


\* Validation.ValidationType: what Profiles.getInstance().validProfile is after
\* checkCurrentProfile
ValidationTypes == {"VALID", "INVALID", "UNVERIFIED"}

\* What vscode.workspace.fs.delete does
FsOutcomes == {"ok", "not found", "Deletion error"}

\* What no test fixes: whether deleteDataset returns or rejects when the profile
\* is invalid
OnInvalid == {"return", "reject"}

\* What no test fixes: whether deleteDatasetPrompt goes on with the next node or
\* rejects when a deleteDataset call has rejected
OnError == {"skip", "reject"}

\* The outcome of deleteDataset(node, datasetProvider) with this validity of the
\* profile (Validation.ValidationType), the file system answering with fs: an invalid node is rejected before
\* any other step; the tests delete with a valid and with an unverified profile,
\* and with an invalid profile no file-system call is modelled; a failed
\* file-system delete is shown and thrown again; after a delete the node leaves
\* the tree and the favorites
DeleteOutcome(node, validProfile, onInvalid, fs) ==
    IF ~IsValidNode(node)
    THEN [result |-> "rejected", error |-> "Cannot delete, item invalid.",
          fsCalls |-> <<>>, removed |-> <<>>, gui |-> <<>>]
    ELSE IF validProfile = "INVALID"
    THEN [result |-> IF onInvalid = "return" THEN "resolved" ELSE "rejected",
          error |-> IF onInvalid = "return" THEN "" ELSE "Error",
          fsCalls |-> <<>>, removed |-> <<>>, gui |-> <<>>]
    ELSE IF fs = "not found"
    THEN [result |-> "rejected", error |-> "not found",
          fsCalls |-> <<node>>, removed |-> <<>>,
          gui |-> <<Message("showMessage", "Unable to find file " \o GetLabel(node), 0, <<>>)>>]
    ELSE IF fs = "Deletion error"
    THEN [result |-> "rejected", error |-> "Deletion error",
          fsCalls |-> <<node>>, removed |-> <<>>,
          gui |-> <<Message("errorMessage", "Deletion error", 0, <<>>)>>]
    ELSE [result |-> "resolved", error |-> "",
          fsCalls |-> <<node>>, removed |-> <<node>>, gui |-> <<>>]

\* deleteDataset(node, datasetProvider)
DeleteDataset(node, validProfile, onInvalid, fs) ==
    LET o == DeleteOutcome(node, validProfile, onInvalid, fs)
    IN /\ gui' = o.gui
       /\ del' = [DatasetAction("deleteDataset", <<>>, node, NoVal, fs, FALSE, o.result,
                                o.error, o.fsCalls, o.removed)
                    EXCEPT !.validProfile = validProfile]
       /\ tree' = tree \ WithMembers(Range(o.removed))
       /\ mFavorites' = mFavorites \ WithMembers(Range(o.removed))

\* The delete step has not called deleteDataset yet
NoCalls ==
    [calls |-> <<>>, results |-> <<>>, fsCalls |-> <<>>, removed |-> <<>>, gui |-> <<>>,
     result |-> "resolved", error |-> ""]

\* The delete step of deleteDatasetPrompt from the i-th node on: it ends when the
\* cancellation token is set (in.cancelAt = i: isCancellationRequested is true
\* when the i-th node is due), otherwise it calls deleteDataset on the node; a
\* call that rejects either ends the step, the prompt rejecting with its error,
\* or is passed over (in.onError)
RECURSIVE DeleteEach(_, _, _, _)
DeleteEach(nodes, i, in, acc) ==
    IF i > Len(nodes) \/ in.cancelAt = i
    THEN acc
    ELSE LET o == DeleteOutcome(nodes[i], in.validProfile, in.onInvalid, in.fs[i])
             next == [acc EXCEPT !.calls = Append(@, nodes[i]),
                                 !.results = Append(@, o.result),
                                 !.fsCalls = @ \o o.fsCalls,
                                 !.removed = @ \o o.removed,
                                 !.gui = @ \o o.gui]
         IN IF o.result = "rejected" /\ in.onError = "reject"
            THEN [next EXCEPT !.result = "rejected", !.error = o.error]
            ELSE DeleteEach(nodes, i + 1, in, next)

\* The nodes whose deleteDataset call has resolved, in the order of the calls
ResolvedCalls(calls, results) ==
    LET resolved == SelectSeq([i \in 1..Len(calls) |-> i], LAMBDA i : results[i] = "resolved")
    IN [k \in 1..Len(resolved) |-> calls[resolved[k]]]

\* deleteDatasetPrompt(datasetProvider) with this selection in the tree view, this
\* answer to the confirmation and, for the delete step, the validity of the
\* profile, the answers of the file system, one for each node, and the node at
\* which the cancellation token is found set (0: it never is).  When the step has
\* ended without a rejection, the nodes whose deleteDataset call resolved are
\* listed as deleted
DeleteDatasetPrompt(selection, answer, in) ==
    LET nodes == NodesToDelete(selection)
        r == DeleteEach(nodes, 1, in, NoCalls)
        deleted == ResolvedCalls(r.calls, r.results)
        gone == WithMembers(Range(r.removed))
    IN IF nodes = <<>>
       THEN /\ gui' = <<Message("showMessage",
                               "No data sets selected for deletion, cancelling...", 0, <<>>)>>
            /\ del' = DatasetAction("deleteDatasetPrompt", selection, NoNode, answer, NoVal,
                                    FALSE, "resolved", "", <<>>, <<>>)
            /\ UNCHANGED <<tree, mFavorites>>
       ELSE IF ~Confirmed(answer)
       THEN /\ gui' = <<ConfirmationMessage(nodes)>>
            /\ del' = DatasetAction("deleteDatasetPrompt", selection, NoNode, answer, NoVal,
                                    FALSE, "resolved", "", <<>>, <<>>)
            /\ UNCHANGED <<tree, mFavorites>>
       ELSE /\ gui' = <<ConfirmationMessage(nodes)>> \o r.gui
                      \o (IF r.result = "resolved" /\ deleted # <<>>
                          THEN <<DeletedMessage(deleted)>>
                          ELSE <<>>)
            /\ del' = [DatasetAction("deleteDatasetPrompt", selection, NoNode, answer, NoVal,
                                     TRUE, r.result, r.error, r.fsCalls, r.removed)
                         EXCEPT !.validProfile = in.validProfile,
                                !.outcomes = in.fs,
                                !.cancelAt = in.cancelAt,
                                !.calls = r.calls,
                                !.results = r.results]
            /\ tree' = tree \ gone
            /\ mFavorites' = mFavorites \ gone

\* The selections of the nodes that are in the tree; a node can be selected more
\* than once
Selections == UNION {[1..n -> Selectable \cap tree] : n \in 0..MaxSelection}

\* What the user does with the confirmation: a button, or dismissing it
Answers == {"Delete", "Cancel", NoVal}

\* The nodes deleteDataset is called on
DeleteNodes == {"DS", "MEMB", "VSAM", "FAV", "CHILD"}

\* What the delete step of deleteDatasetPrompt meets with n nodes: the profile of
\* the prompt's tests or an invalid one, the cancellation, and the file system at
\* each node.  What is never read has one value: the file system is not called
\* with an invalid profile nor from the node of the cancellation on, and
\* onInvalid counts with an invalid profile only
DeleteInputs(n) ==
    UNION {
        {[validProfile |-> "VALID", onInvalid |-> "return", fs |-> f, cancelAt |-> c,
          onError |-> oe] :
            f \in {g \in [1..n -> FsOutcomes] : \A i \in 1..n : (c # 0 /\ i >= c) => g[i] = "ok"},
            oe \in OnError}
        \cup
        {[validProfile |-> "INVALID", onInvalid |-> oi, fs |-> f, cancelAt |-> c,
          onError |-> oe] :
            oi \in OnInvalid, f \in [1..n -> {"ok"}], oe \in OnError} :
        c \in 0..n}

\* The delete step runs for a confirmed selection only
PromptInputs(selection, answer) ==
    IF Confirmed(answer)
    THEN DeleteInputs(Len(NodesToDelete(selection)))
    ELSE DeleteInputs(0)

\* The trees deletes can leave, with the favorites that are left
DeleteInit ==
    /\ CacheInit /\ DebounceInit /\ UtilInit
    /\ \E gone \in SUBSET {"DS", "MEMB", "VSAM", "FAV"} :
          /\ tree = Nodes \ WithMembers(gone)
          /\ mFavorites = {"FAV"} \ WithMembers(gone)
    /\ gui = <<>>
    /\ del = DatasetAction("none", <<>>, NoNode, NoVal, NoVal, FALSE, "none", "", <<>>, <<>>)
    /\ zoom = [pc |-> "idle", text |-> "", profiles |-> <<>>, profile |-> NoVal,
               steps |-> <<>>, opened |-> {}]

\* The two actions read the tree and the favorites only, and del holds the last
\* action with what it met: a behaviour is one action, from any of the trees
NextDelete ==
    \/ (/\ del.op = "none"
        /\ \E sel \in Selections, a \in Answers : \E in \in PromptInputs(sel, a) :
              DeleteDatasetPrompt(sel, a, in))
          /\ UNCHANGED <<cacheVars, call, tasks, debounceVars, zoom, utilVars>>
    \/ (/\ del.op = "none"
        /\ \E n \in DeleteNodes \cap tree, v \in ValidationTypes, oi \in OnInvalid,
              f \in FsOutcomes : DeleteDataset(n, v, oi, f))
          /\ UNCHANGED <<cacheVars, call, tasks, debounceVars, zoom, utilVars>>

SpecDelete == DeleteInit /\ [][NextDelete]_vars


\* The message that lists the deleted items is among the messages shown
ShowsDeleted(g) ==
    \E i \in 1..Len(g) : g[i].message = "The following {0} item(s) were deleted:"

\* C8: DatasetActions.deleteDatasetPrompt deletes nothing unless the user answers
\* the modal confirmation with "Delete": for any other answer or a dismissed
\* prompt the progress-wrapped delete step is never started, no data set or
\* member is removed and no "were deleted" message is shown.
C8_NothingDeletedUnlessDelete ==
    [][(del'.op = "deleteDatasetPrompt" /\ del'.answer # "Delete") =>
          /\ ~del'.progress
          /\ del'.fsCalls = <<>>
          /\ tree' = tree
          /\ mFavorites' = mFavorites
          /\ ~ShowsDeleted(gui')]_vars

\* The confirmation for a data set and a VSAM data set has been dismissed, and
\* both are still in the tree
C8_Witness ==
    /\ del.op = "deleteDatasetPrompt"
    /\ del.answer = NoVal
    /\ Range(del.selection) = {"DS", "VSAM"}
    /\ Len(gui) = 1 /\ gui[1].kind = "warningMessage" /\ gui[1].count = 2
    /\ {"DS", "MEMB", "VSAM"} \subseteq tree

\* The selection without the sessions and without the members whose data set is
\* selected too
Remaining(selection) ==
    {n \in Range(selection) :
        ~IsSession(n) /\ ~(IsDsMember(n) /\ GetParent(n) \in Range(selection))}

\* The message lists exactly these nodes, each once
ListsExactly(m, ns) ==
    /\ m.count = Cardinality(ns)
    /\ Len(m.names) = Cardinality(ns)
    /\ Range(m.names) = {DisplayName(n) : n \in ns}

\* C9 (as claimed): for any selection passed to DatasetActions.deleteDatasetPrompt,
\* the set of items confirmed, deleted and listed equals the selection minus all
\* session nodes minus every member whose parent data set is also selected, each
\* remaining item listed exactly once; if that set is empty the operation reports
\* "No data sets selected for deletion, cancelling..." and deletes nothing.
C9_DeletesRemainingSelection ==
    [][del'.op = "deleteDatasetPrompt" =>
          IF Remaining(del'.selection) = {}
          THEN /\ Len(gui') = 1
               /\ gui'[1].message = "No data sets selected for deletion, cancelling..."
               /\ del'.fsCalls = <<>>
               /\ tree' = tree
          ELSE /\ gui'[1].kind = "warningMessage"
               /\ ListsExactly(gui'[1], Remaining(del'.selection))
               /\ del'.answer = "Delete" =>
                     /\ Len(del'.fsCalls) = Cardinality(Remaining(del'.selection))
                     /\ Range(del'.fsCalls) = Remaining(del'.selection)
                     /\ Len(gui') = 2
                     /\ gui'[2].message = "The following {0} item(s) were deleted:"
                     /\ ListsExactly(gui'[2], Remaining(del'.selection))
                     /\ tree' = tree \ WithMembers(Remaining(del'.selection))]_vars

\* The remaining items in the order of the selection, each as often as it is
\* selected
RemainingSeq(selection) == SelectSeq(selection, LAMBDA n : n \in Remaining(selection))

TimesIn(s, x) == Cardinality({i \in 1..Len(s) : s[i] = x})

\* The message lists these nodes, each as often as the sequence holds it
ListsEach(m, ns) ==
    /\ m.count = Len(ns)
    /\ Len(m.names) = Len(ns)
    /\ \A n \in Nodes : TimesIn(m.names, DisplayName(n)) = TimesIn(ns, n)

IsPrefix(s, t) == Len(s) <= Len(t) /\ \A i \in 1..Len(s) : s[i] = t[i]

\* The file-system delete of the i-th deleteDataset call of d is made and succeeds
DeleteSucceeds(d, i) ==
    /\ ContextValue(GetParent(d.calls[i])) # "junk"
    /\ d.validProfile # "INVALID"
    /\ d.outcomes[i] = "ok"

\* Nothing stands in the way of the deletes of d: the step is not cancelled, the
\* profile is not invalid, every remaining item can be deleted and the file
\* system deletes each
AllSucceed(d) ==
    /\ d.cancelAt = 0
    /\ d.validProfile # "INVALID"
    /\ \A i \in 1..Len(RemainingSeq(d.selection)) :
          /\ ContextValue(GetParent(RemainingSeq(d.selection)[i])) # "junk"
          /\ d.outcomes[i] = "ok"

\* C9 (amended): let R be the selection passed to deleteDatasetPrompt minus all
\* session nodes minus every member whose parent data set is also selected.  If
\* R is empty the operation reports "No data sets selected for deletion,
\* cancelling..." and deletes nothing.  Otherwise the confirmation lists the
\* items of R, each as often as the selection holds it, so exactly once when no
\* node is selected twice.  After the answer "Delete", deleteDataset is called on
\* these items in the order of the selection, on all of them unless the step is
\* cancelled or rejects; an item whose file-system delete fails is not listed as
\* deleted and stays in the tree, the items removed are those whose file-system
\* delete succeeded, and the "were deleted" message, when shown, lists exactly the
\* items whose deleteDataset call resolved.  Confirmed, deleted and listed are the
\* same items R when the step is not cancelled, the profile is not invalid, every
\* item is a valid node and every file-system delete succeeds.
C9_ListsResolvedDeletes ==
    [][del'.op = "deleteDatasetPrompt" =>
          IF Remaining(del'.selection) = {}
          THEN /\ Len(gui') = 1
               /\ gui'[1].message = "No data sets selected for deletion, cancelling..."
               /\ del'.fsCalls = <<>>
               /\ tree' = tree
          ELSE /\ gui'[1].kind = "warningMessage"
               /\ ListsEach(gui'[1], RemainingSeq(del'.selection))
               /\ (\A i, j \in 1..Len(del'.selection) :
                       i # j => del'.selection[i] # del'.selection[j])
                     => ListsExactly(gui'[1], Remaining(del'.selection))
               /\ del'.answer = "Delete" =>
                     /\ IsPrefix(del'.calls, RemainingSeq(del'.selection))
                     /\ (del'.cancelAt = 0 /\ del'.result = "resolved")
                           => del'.calls = RemainingSeq(del'.selection)
                     /\ \A i \in 1..Len(del'.calls) :
                           /\ DeleteSucceeds(del', i) => del'.results[i] = "resolved"
                           /\ del'.results[i] = "resolved"
                                 => DeleteSucceeds(del', i) \/ del'.validProfile = "INVALID"
                     /\ tree' = tree \ WithMembers({del'.calls[i] :
                                   i \in {j \in 1..Len(del'.calls) : DeleteSucceeds(del', j)}})
                     /\ ShowsDeleted(gui') =>
                           ListsEach(gui'[Len(gui')],
                                     ResolvedCalls(del'.calls, del'.results))
                     /\ AllSucceed(del') =>
                           /\ del'.calls = RemainingSeq(del'.selection)
                           /\ del'.fsCalls = RemainingSeq(del'.selection)
                           /\ Len(gui') = 2
                           /\ gui'[2].message = "The following {0} item(s) were deleted:"
                           /\ ListsEach(gui'[2], RemainingSeq(del'.selection))
                           /\ tree' = tree \ WithMembers(Remaining(del'.selection))]_vars

\* A member, its data set and a VSAM data set were selected: the two data sets
\* were confirmed, the delete of the first failed and the second alone has been
\* deleted and listed
C9_Witness ==
    /\ del.op = "deleteDatasetPrompt"
    /\ del.selection = <<"MEMB", "DS", "VSAM">>
    /\ del.answer = "Delete"
    /\ del.outcomes = <<"Deletion error", "ok">>
    /\ del.calls = <<"DS", "VSAM">>
    /\ del.results = <<"rejected", "resolved">>
    /\ Len(gui) = 3
    /\ gui[1].count = 2 /\ gui[1].names = <<"HLQ.TEST.DS", "HLQ.TEST.VSAM">>
    /\ gui[2].kind = "errorMessage"
    /\ gui[3].count = 1 /\ gui[3].names = <<"HLQ.TEST.VSAM">>
    /\ {"DS", "MEMB"} \subseteq tree
    /\ "VSAM" \notin tree

\* C10: DatasetActions.deleteDataset on a node that is not a valid deletable item
\* (its context and its parent's context match no data set, member or favorite
\* kind) rejects with "Cannot delete, item invalid." and makes no file-system
\* delete call; when the file-system delete itself fails, the error is displayed
\* to the user and the call rejects without removing the node from favorites.
C10_InvalidOrFailedDelete ==
    [][del'.op = "deleteDataset" =>
          /\ ContextValue(GetParent(del'.node)) = "junk" =>
                /\ del'.result = "rejected"
                /\ del'.error = "Cannot delete, item invalid."
                /\ del'.fsCalls = <<>>
                /\ tree' = tree
          /\ (del'.fsCalls # <<>> /\ del'.fs # "ok") =>
                /\ del'.result = "rejected"
                /\ Len(gui') = 1
                /\ gui'[1].kind \in {"showMessage", "errorMessage"}
                /\ del'.removeFavorite = <<>>
                /\ mFavorites' = mFavorites
                /\ tree' = tree]_vars

\* The file system has failed to delete the favorited data set: the error was
\* shown, the call was rejected and the data set is still a favorite
C10_Witness ==
    /\ del.op = "deleteDataset"
    /\ del.node = "FAV"
    /\ del.fs = "Deletion error"
    /\ del.fsCalls = <<"FAV">>
    /\ del.result = "rejected"
    /\ gui = <<Message("errorMessage", "Deletion error", 0, <<>>)>>
    /\ "FAV" \in mFavorites


\* ---------------------------------------------------------------------------
\* DatasetActions.zoom, as its unit tests describe it
\* ---------------------------------------------------------------------------

\* The texts selected in the editor
ZoomTexts ==
    {"", "MY.DATASET", "MY.DATASET(MEMBER1)", "INVALID@DATASET", "MY.DATASET(INVALID@MEM)"}

\* DatasetUtils.extractDataSetAndMember
ExtractDataSetAndMember(text) ==
    CASE text = "MY.DATASET(MEMBER1)" -> [dataSetName |-> "MY.DATASET", memberName |-> "MEMBER1"]
      [] text = "MY.DATASET(INVALID@MEM)" -> [dataSetName |-> "MY.DATASET", memberName |-> "INVALID@MEM"]
      [] OTHER -> [dataSetName |-> text, memberName |-> ""]

\* DatasetUtils.validateDataSetName
ValidateDataSetName(name) == name = "MY.DATASET"

\* DatasetUtils.validateMemberName
ValidateMemberName(name) == name = "MEMBER1"

\* What ProfileManagement.getRegisteredProfileNameList returns
ProfileNameLists == {<<>>, <<"prof1">>, <<"prof1", "prof2">>}


\* What vscode.workspace.fs.readFile does
ReadOutcomes == {"ok", "FileSystemError", "Error"}

\* zoom returns after this step and this one message
ZoomEnds(step, kind, message) ==
    /\ zoom' = [zoom EXCEPT !.pc = "done", !.steps = Append(zoom.steps, step)]
    /\ gui' = <<Message(kind, message, 0, <<>>)>>

\* A zoom that takes the first registered profile without asking
ZoomAsksNever(names) == FALSE

\* The quick pick is shown when more than one profile is registered
ZoomAsks(names) == Len(names) > 1

\* zoom() is called: the checks up to the choice of the profile
ZoomStart(editor, text, names) ==
    /\ zoom.pc \in {"idle", "done"}
    /\ LET z == [zoom EXCEPT !.text = text, !.profiles = names, !.profile = NoVal]
           ds == ExtractDataSetAndMember(text)
           nameSteps == IF ds.memberName = ""
                        THEN <<"activeTextEditor", "selection", "validateDataSetName">>
                        ELSE <<"activeTextEditor", "selection", "validateDataSetName",
                               "validateMemberName">>
       IN IF ~editor
          THEN /\ zoom' = [zoom EXCEPT !.pc = "done", !.text = "", !.profiles = <<>>,
                                      !.profile = NoVal, !.steps = <<"activeTextEditor">>]
               /\ gui' = <<Message("warningMessage",
                   "No active editor open. Please open a file and select text to open a data set.",
                   0, <<>>)>>
          ELSE IF text = ""
          THEN /\ zoom' = [z EXCEPT !.pc = "done", !.profiles = <<>>,
                                   !.steps = <<"activeTextEditor", "selection">>]
               /\ gui' = <<Message("warningMessage", "No selection to open.", 0, <<>>)>>
          ELSE IF ~ValidateDataSetName(ds.dataSetName)
          THEN /\ zoom' = [z EXCEPT !.pc = "done", !.profiles = <<>>,
                                   !.steps = <<"activeTextEditor", "selection", "validateDataSetName">>]
               /\ gui' = <<Message("warningMessage",
                                   "Selection is not a valid data set name.", 0, <<>>)>>
          ELSE IF ds.memberName # "" /\ ~ValidateMemberName(ds.memberName)
          THEN /\ zoom' = [z EXCEPT !.pc = "done", !.profiles = <<>>, !.steps = nameSteps]
               /\ gui' = <<Message("warningMessage",
                                   "Selection is not a valid data set member name.", 0, <<>>)>>
          ELSE IF names = <<>>
          THEN /\ zoom' = [z EXCEPT !.pc = "done",
                                   !.steps = Append(nameSteps, "getRegisteredProfileNameList")]
               /\ gui' = <<Message("showMessage", "No profiles available", 0, <<>>)>>
          ELSE IF ZoomAsks(names)
          THEN /\ zoom' = [z EXCEPT !.pc = "showQuickPick",
                                   !.steps = Append(nameSteps, "getRegisteredProfileNameList")]
               /\ gui' = <<>>
          ELSE /\ zoom' = [z EXCEPT !.pc = "checkCurrentProfile", !.profile = names[1],
                                   !.steps = Append(nameSteps, "getRegisteredProfileNameList")]
               /\ gui' = <<>>
    /\ UNCHANGED <<tree, mFavorites, del>>


\* The user answers the quick pick with a profile name, or dismisses it
ZoomPick(answer) ==
    /\ zoom.pc = "showQuickPick"
    /\ IF answer = NoVal
       THEN ZoomEnds("showQuickPick", "infoMessage", "Operation cancelled")
       ELSE /\ zoom' = [zoom EXCEPT !.pc = "checkCurrentProfile", !.profile = answer,
                                   !.steps = Append(zoom.steps, "showQuickPick")]
            /\ UNCHANGED gui
    /\ UNCHANGED <<tree, mFavorites, del>>

\* Profiles.checkCurrentProfile has set validProfile
ZoomValidate(validProfile) ==
    /\ zoom.pc = "checkCurrentProfile"
    /\ IF validProfile = "INVALID"
       THEN ZoomEnds("checkCurrentProfile", "errorMessage", "Profile is invalid")
       ELSE /\ zoom' = [zoom EXCEPT !.pc = "readFile",
                                   !.steps = Append(zoom.steps, "checkCurrentProfile")]
            /\ UNCHANGED gui
    /\ UNCHANGED <<tree, mFavorites, del>>

\* The resource zoom reads and opens
ZoomUri == <<zoom.profile, zoom.text>>

\* vscode.workspace.fs.readFile has answered; the open command follows a read
\* that succeeded
ZoomRead(outcome) ==
    /\ zoom.pc = "readFile"
    /\ IF outcome = "FileSystemError"
       THEN ZoomEnds("readFile", "warningMessage",
              IF ExtractDataSetAndMember(zoom.text).memberName = ""
              THEN "Data set {0} does not exist or cannot be opened."
              ELSE "Data set member {0} does not exist or cannot be opened in data set {1}.")
       ELSE IF outcome = "Error"
       THEN ZoomEnds("readFile", "errorHandling", "Opening data set failed.")
       ELSE /\ zoom' = [zoom EXCEPT !.pc = "done",
                                   !.steps = zoom.steps \o <<"readFile", "vscode.open">>,
                                   !.opened = zoom.opened \cup {ZoomUri}]
            /\ UNCHANGED gui
    /\ UNCHANGED <<tree, mFavorites, del>>

NextZoom ==
    \/ (\E e \in BOOLEAN, t \in ZoomTexts, n \in ProfileNameLists : ZoomStart(e, t, n))
          /\ UNCHANGED <<cacheVars, call, tasks, debounceVars, utilVars>>
    \/ (\E a \in {NoVal, "prof1", "prof2"} : ZoomPick(a))
          /\ UNCHANGED <<cacheVars, call, tasks, debounceVars, utilVars>>
    \/ (\E v \in ValidationTypes : ZoomValidate(v))
          /\ UNCHANGED <<cacheVars, call, tasks, debounceVars, utilVars>>
    \/ (\E o \in ReadOutcomes : ZoomRead(o))
          /\ UNCHANGED <<cacheVars, call, tasks, debounceVars, utilVars>>

SpecZoom == Init /\ [][NextZoom]_vars


\* The steps of a zoom that opens this text, with or without the quick pick
ZoomStepsToOpen(text, asked) ==
    <<"activeTextEditor", "selection", "validateDataSetName">>
      \o (IF ExtractDataSetAndMember(text).memberName = "" THEN <<>> ELSE <<"validateMemberName">>)
      \o <<"getRegisteredProfileNameList">>
      \o (IF asked THEN <<"showQuickPick">> ELSE <<>>)
      \o <<"checkCurrentProfile", "readFile", "vscode.open">>

ZoomOpened == zoom.steps # <<>> /\ zoom.steps[Len(zoom.steps)] = "vscode.open"

\* The selected names are valid and the profile is a registered one
ZoomInputsValid ==
    /\ zoom.text # ""
    /\ ValidateDataSetName(ExtractDataSetAndMember(zoom.text).dataSetName)
    /\ \/ ExtractDataSetAndMember(zoom.text).memberName = ""
       \/ ValidateMemberName(ExtractDataSetAndMember(zoom.text).memberName)
    /\ zoom.profile \in Range(zoom.profiles)

\* A zoom that has ended without opening has shown exactly one message, and a
\* zoom that goes on or has opened has shown none
ZoomOneMessage ==
    IF zoom.pc = "done" /\ ~ZoomOpened THEN Len(gui) = 1 ELSE gui = <<>>

\* The steps run so far are the first steps of a zoom that opens, in that order
ZoomInOrder(asked) ==
    /\ Len(zoom.steps) <= Len(ZoomStepsToOpen(zoom.text, asked))
    /\ \/ zoom.steps = SubSeq(ZoomStepsToOpen(zoom.text, asked), 1, Len(zoom.steps))
       \/ zoom.steps = <<"activeTextEditor">>

\* C11 (as claimed): DatasetActions.zoom executes the open command (vscode.open)
\* only after all of these checks passed, in this order: an active editor exists,
\* the selection text is non-empty, the extracted data set name (and member name
\* when present) is valid, at least one profile is registered, the user selected
\* a profile, the profile is not INVALID, and reading the resource succeeded; the
\* first failing check produces exactly one message and no later step runs.
C11_OpenAfterUserSelectedProfile ==
    zoom.pc # "idle" =>
        /\ ZoomOpened =>
              /\ zoom.steps = ZoomStepsToOpen(zoom.text, TRUE)
              /\ ZoomInputsValid
        /\ ZoomOneMessage

\* C11 (amended): the open command is executed only after these checks passed,
\* in this order: active editor, non-empty selection, valid data set name (and
\* member name when present), at least one registered profile, the user's choice
\* of a profile when more than one is registered (a single registered profile is
\* taken without asking), a profile that is not INVALID, and a successful read;
\* the first failing check produces exactly one message and no later step runs.
C11_OpenAfterChecksInOrder ==
    zoom.pc # "idle" =>
        /\ ZoomOpened =>
              /\ zoom.steps = ZoomStepsToOpen(zoom.text, Len(zoom.profiles) > 1)
              /\ ZoomInputsValid
              /\ ZoomUri \in zoom.opened
        /\ ZoomInOrder(Len(zoom.profiles) > 1)
        /\ ZoomOneMessage
        /\ (zoom.pc = "done" /\ ~ZoomOpened) => "vscode.open" \notin Range(zoom.steps)

\* The member of a data set has been opened with the profile the user picked out
\* of two
C11_Witness ==
    /\ zoom.pc = "done"
    /\ zoom.text = "MY.DATASET(MEMBER1)"
    /\ zoom.profiles = <<"prof1", "prof2">>
    /\ zoom.profile = "prof2"
    /\ zoom.steps = ZoomStepsToOpen(zoom.text, TRUE)
    /\ <<"prof2", "MY.DATASET(MEMBER1)">> \in zoom.opened
    /\ gui = <<>>


\* ---------------------------------------------------------------------------
\* SharedUtils.parseFavorites. A string is the sequence of its characters.
\* ---------------------------------------------------------------------------

\* lines holds at most this many lines
MaxLines == 2

\* String.prototype.indexOf, counted from 0; -1 when the character is absent
StrIndexOf(str, ch) ==
    IF \E i \in 1..Len(str) : str[i] = ch
    THEN (CHOOSE i \in 1..Len(str) : str[i] = ch /\ \A j \in 1..(i - 1) : str[j] # ch) - 1
    ELSE -1

Clamp(n, len) == IF n < 0 THEN 0 ELSE IF n > len THEN len ELSE n

\* String.prototype.substring(start, end): both ends are clamped to the string,
\* and swapped when start is after end
Substring(str, start, end) ==
    LET a == Clamp(start, Len(str))
        b == Clamp(end, Len(str))
    IN IF a <= b THEN SubSeq(str, a + 1, b) ELSE SubSeq(str, b + 1, a)

\* String.prototype.substring(start)
SubstringFrom(str, start) == Substring(str, start, Len(str))

RECURSIVE TrimStart(_)
TrimStart(str) == IF str # <<>> /\ Head(str) = " " THEN TrimStart(Tail(str)) ELSE str

RECURSIVE TrimEnd(_)
TrimEnd(str) ==
    IF str # <<>> /\ str[Len(str)] = " " THEN TrimEnd(SubSeq(str, 1, Len(str) - 1)) ELSE str

\* String.prototype.trim
Trim(str) == TrimEnd(TrimStart(str))

StartsWith(str, ch) == str # <<>> /\ Head(str) = ch

\* label: remainderOfLine.substring(0, openingCurlyBrace).trim()
FavoriteLabel(remainderOfLine, openingCurlyBrace) ==
    Trim(Substring(remainderOfLine, 0, openingCurlyBrace))

\* The callback of lines.map: <<>> stands for null, <<entry>> for an entry
ParseFavoriteLine(line) ==
    LET closingSquareBracket == StrIndexOf(line, "]")
        profileName == Substring(line, 1, closingSquareBracket)
        remainderOfLine == Trim(SubstringFrom(line, closingSquareBracket + 2))
        openingCurlyBrace == StrIndexOf(remainderOfLine, "{")
    IN IF ~StartsWith(line, "[") \/ closingSquareBracket = -1
       THEN <<>>
       ELSE IF Len(remainderOfLine) = 0
       THEN <<>>
       ELSE <<[profileName |-> profileName,
               label |-> FavoriteLabel(remainderOfLine, openingCurlyBrace),
               contextValue |->
                   IF openingCurlyBrace > 0
                   THEN <<Substring(remainderOfLine, openingCurlyBrace + 1,
                                    StrIndexOf(remainderOfLine, "}"))>>
                   ELSE <<>>]>>

\* lines.map(...).filter(Boolean)
ParseFavoritesResult(lines) ==
    Flatten([i \in 1..Len(lines) |-> ParseFavoriteLine(lines[i])])

\* The lines invalidFavoriteWarning is called with
ParseFavoritesWarnings(lines) ==
    SelectSeq(lines, LAMBDA line : ParseFavoriteLine(line) = <<>>)

\* parseFavorites(lines)
ParseFavorites ==
    /\ ~fav.parsed
    /\ fav' = [fav EXCEPT !.parsed = TRUE,
                          !.result = ParseFavoritesResult(fav.lines),
                          !.warnings = ParseFavoritesWarnings(fav.lines)]

\* "[a]: b{c}"
LineFull == <<"[", "a", "]", ":", " ", "b", "{", "c", "}">>

\* "[ab]: b b{c}"
LineSpaced == <<"[", "a", "b", "]", ":", " ", "b", " ", "b", "{", "c", "}">>

\* "[a]: b"
LineNoContext == <<"[", "a", "]", ":", " ", "b">>

\* "a]: b{c}"
LineNoOpening == <<"a", "]", ":", " ", "b", "{", "c", "}">>

\* "[a: b{c}"
LineNoClosing == <<"[", "a", ":", " ", "b", "{", "c", "}">>

\* "[a]: "
LineNoLabel == <<"[", "a", "]", ":", " ">>

\* "[a]"
LineProfileOnly == <<"[", "a", "]">>

\* The saved favorites parseFavorites is given
FavoriteLines ==
    {LineFull, LineSpaced, LineNoContext, LineNoOpening, LineNoClosing, LineNoLabel,
     LineProfileOnly}

FavoritesInit ==
    /\ CacheInit /\ DebounceInit /\ DatasetInit
    /\ ConcatIdle /\ TypeConfigsInit /\ StoredInit /\ ChangeIdle
    /\ \E n \in 0..MaxLines : \E lines \in [1..n -> FavoriteLines] :
          fav = [lines |-> lines, parsed |-> FALSE, result |-> <<>>, warnings |-> <<>>]

NextFavorites ==
    ParseFavorites
      /\ UNCHANGED <<cacheVars, call, tasks, debounceVars, datasetVars, concat, typeConfigs, stored, change>>

SpecFavorites == FavoritesInit /\ [][NextFavorites]_vars


\* The entry a saved favorite stands for: the profile between the square
\* brackets, the label after the prefix and the context between the braces;
\* <<>> for a line that is to be omitted
ExpectedFavorite(line) ==
    CASE line = LineFull ->
           <<[profileName |-> <<"a">>, label |-> <<"b">>, contextValue |-> <<(<<"c">>)>>]>>
      [] line = LineSpaced ->
           <<[profileName |-> <<"a", "b">>, label |-> <<"b", " ", "b">>,
              contextValue |-> <<(<<"c">>)>>]>>
      [] line = LineNoContext ->
           <<[profileName |-> <<"a">>, label |-> <<"b">>, contextValue |-> <<>>]>>
      [] OTHER -> <<>>

\* C12: SharedUtils.parseFavorites: for every input line of the form "[P]: L"
\* optionally followed by "{C}", the output holds an entry with profileName P,
\* label L and contextValue C (undefined when no "{C}" is present); lines that do
\* not start with "[", lack "]" or have nothing after the profile prefix are
\* omitted; the output keeps the input order and contains no null entry.
C12_ParseFavoritesEntries ==
    fav.parsed =>
        fav.result = Flatten([i \in 1..Len(fav.lines) |-> ExpectedFavorite(fav.lines[i])])


\* ---------------------------------------------------------------------------
\* SharedUtils.concatChildNodes
\* ---------------------------------------------------------------------------

\* The trees hold this many nodes
MaxNodes == 4

\* nodes holds at most this many nodes
MaxGiven == 2

\* The trees over the nodes 1..MaxNodes: every node has a parent with a smaller
\* number, or none (0)
TreeShapes == {p \in [1..MaxNodes -> 0..(MaxNodes - 1)] : \A n \in 1..MaxNodes : p[n] < n}

\* node.children: the children of the node, in the order of their numbers
ChildrenOf(parent, n) ==
    SelectSeq([i \in 1..Len(parent) |-> i], LAMBDA c : parent[c] = n)

\* A traversal that puts a node before its children
RECURSIVE ConcatParentFirst(_, _)
ConcatParentFirst(parent, nodes) ==
    IF nodes = <<>>
    THEN <<>>
    ELSE <<Head(nodes)>> \o ConcatParentFirst(parent, ChildrenOf(parent, Head(nodes)))
           \o ConcatParentFirst(parent, Tail(nodes))

\* concatChildNodes(nodes): for each node, what the call on its children returns
\* and then the node itself
RECURSIVE ConcatChildNodesResult(_, _)
ConcatChildNodesResult(parent, nodes) ==
    IF nodes = <<>>
    THEN <<>>
    ELSE ConcatChildNodesResult(parent, ChildrenOf(parent, Head(nodes))) \o <<Head(nodes)>>
           \o ConcatChildNodesResult(parent, Tail(nodes))

ConcatChildNodes ==
    /\ ~concat.returned
    /\ concat' = [concat EXCEPT !.returned = TRUE,
                                !.result = ConcatChildNodesResult(concat.parent, concat.nodes)]

ConcatInit ==
    /\ CacheInit /\ DebounceInit /\ DatasetInit
    /\ FavIdle /\ TypeConfigsInit /\ StoredInit /\ ChangeIdle
    /\ \E p \in TreeShapes, n \in 0..MaxGiven : \E nodes \in [1..n -> 1..MaxNodes] :
          concat = [parent |-> p, nodes |-> nodes, returned |-> FALSE, result |-> <<>>]

NextConcat ==
    ConcatChildNodes
      /\ UNCHANGED <<cacheVars, call, tasks, debounceVars, datasetVars, fav, typeConfigs, stored, change>>

SpecConcat == ConcatInit /\ [][NextConcat]_vars


\* The node and its ancestors
RECURSIVE PathToRoot(_, _)
PathToRoot(parent, n) ==
    IF parent[n] = 0 THEN {n} ELSE {n} \cup PathToRoot(parent, parent[n])

\* The node and all of its descendants
Subtree(parent, n) == {m \in 1..Len(parent) : n \in PathToRoot(parent, m)}

\* The given nodes and all of their descendants
ForestNodes == UNION {Subtree(concat.parent, n) : n \in Range(concat.nodes)}

\* Every node of the result comes after all of its own descendants
AfterDescendants ==
    \A i \in 1..Len(concat.result) :
        \A d \in Subtree(concat.parent, concat.result[i]) \ {concat.result[i]} :
            \E j \in 1..(i - 1) : concat.result[j] = d

\* How often the node is in the result
Occurrences(n) == Cardinality({i \in 1..Len(concat.result) : concat.result[i] = n})

\* C13 (as claimed): SharedUtils.concatChildNodes(nodes) returns every node of
\* the given forest (the given nodes and all of their descendants) exactly once,
\* each node appearing after all of its own descendants, so the result length
\* equals the number of nodes in the forest; it terminates for every finite tree.
C13_EveryNodeOnce ==
    concat.returned =>
        /\ Range(concat.result) = ForestNodes
        /\ \A n \in ForestNodes : Occurrences(n) = 1
        /\ Len(concat.result) = Cardinality(ForestNodes)
        /\ AfterDescendants

\* C13 (amended): concatChildNodes(nodes) returns the nodes of the given forest
\* and no others, each node after all of its own descendants, and each node once
\* for every position of nodes whose subtree holds it: exactly once, with a
\* result as long as the forest, when no given node is repeated or is a
\* descendant of another given node.
C13_EveryNodeOncePerGivenSubtree ==
    concat.returned =>
        /\ Range(concat.result) = ForestNodes
        /\ \A n \in ForestNodes :
              Occurrences(n) = Cardinality({k \in 1..Len(concat.nodes) :
                                              n \in Subtree(concat.parent, concat.nodes[k])})
        /\ AfterDescendants
        /\ (\A k, l \in 1..Len(concat.nodes) :
               k # l => concat.nodes[k] \notin Subtree(concat.parent, concat.nodes[l]))
             => Len(concat.result) = Cardinality(ForestNodes)

\* A chain of three nodes and a single node were given as two roots: the chain
\* comes out leaf first, then the single node
C13_Witness ==
    /\ concat.returned
    /\ concat.parent = <<0, 1, 2, 0>>
    /\ concat.nodes = <<1, 4>>
    /\ concat.result = <<3, 2, 1, 4>>


\* ---------------------------------------------------------------------------
\* ProfilesCache.addToConfigArray and getConfigArray
\* ---------------------------------------------------------------------------

\* extendermetadata holds at most this many items
MaxItems == 2

\* The profile type meta-data items: a type and the schema that tells two items
\* of one type apart
ConfigItems == [type : {"zosmf", "zftp"}, schema : {"s1", "s2"}]

\* An empty slot of a JavaScript array
EmptySlot == [type |-> "<empty>", schema |-> "<empty>"]

\* arr[index] = item, for an index that may lie beyond the end of the array
SetAt(arr, index, item) ==
    [i \in 1..(IF index > Len(arr) THEN index ELSE Len(arr)) |->
        IF i = index THEN item ELSE IF i <= Len(arr) THEN arr[i] ELSE EmptySlot]

\* A lookup that finds no entry, so that every item is pushed
TypeIndexNone(session, item) == 0

\* sessionProfileTypeConfigurations.findIndex((ele) => ele.type == item.type);
\* 0 stands for -1
TypeIndex(session, item) ==
    IF \E i \in 1..Len(session) : session[i].type = item.type
    THEN CHOOSE i \in 1..Len(session) :
            session[i].type = item.type /\ \A j \in 1..(i - 1) : session[j].type # item.type
    ELSE 0

\* The callback of extendermetadata.forEach, called by instance inst
AddConfigItem(tc, inst, item) ==
    LET index == TypeIndex(tc.session, item)
    IN IF index # 0
       THEN [tc EXCEPT !.session[index] = item,
                       !.instance[inst] = SetAt(tc.instance[inst], index, item),
                       !.added = Append(SelectSeq(tc.added, LAMBDA a : a.type # item.type), item)]
       ELSE [tc EXCEPT !.session = Append(tc.session, item),
                       !.instance[inst] = Append(tc.instance[inst], item),
                       !.added = Append(SelectSeq(tc.added, LAMBDA a : a.type # item.type), item)]

RECURSIVE AddConfigItems(_, _, _)
AddConfigItems(tc, inst, items) ==
    IF items = <<>> THEN tc
    ELSE AddConfigItems(AddConfigItem(tc, inst, Head(items)), inst, Tail(items))

\* addToConfigArray(extendermetadata) on instance inst; <<>> stands for undefined
AddToConfigArray(inst, extendermetadata) ==
    typeConfigs' = IF extendermetadata = <<>> THEN typeConfigs
                   ELSE AddConfigItems(typeConfigs, inst, extendermetadata[1])

\* getConfigArray()
GetConfigArray == typeConfigs.session

\* What addToConfigArray is given: undefined, or an array of items
ExtenderMetadata ==
    {<<>>} \cup {<<items>> : items \in UNION {[1..n -> ConfigItems] : n \in 0..MaxItems}}

NextConfigArray ==
    (\E inst \in Instances, m \in ExtenderMetadata : AddToConfigArray(inst, m))
      /\ UNCHANGED <<cacheVars, call, tasks, debounceVars, datasetVars, fav, concat, stored, change>>

SpecConfigArray == Init /\ [][NextConfigArray]_vars


\* The types of the entries of an array of items
TypesOf(arr) == {arr[i].type : i \in 1..Len(arr)}

\* C14: after any sequence of addToConfigArray calls, getConfigArray() holds at
\* most one entry per profile type, the entry of a type is the item of that type
\* added last, and every type that was added has an entry
C14_OneEntryPerTypeMostRecent ==
    /\ \A i, j \in 1..Len(GetConfigArray) :
          GetConfigArray[i].type = GetConfigArray[j].type => i = j
    /\ \A i \in 1..Len(typeConfigs.added) :
          \E j \in 1..Len(GetConfigArray) : GetConfigArray[j] = typeConfigs.added[i]
    /\ TypesOf(GetConfigArray) = TypesOf(typeConfigs.added)

\* Both types have an entry, and the entry of the first one replaced the item an
\* instance had pushed
C14_Witness ==
    /\ Len(GetConfigArray) = 2
    /\ \E inst \in Instances :
          /\ Len(typeConfigs.instance[inst]) >= 1
          /\ typeConfigs.instance[inst][1] # EmptySlot
          /\ typeConfigs.instance[inst][1] # GetConfigArray[1]


\* ---------------------------------------------------------------------------
\* ProfilesCache.fetchAllProfilesByType and ProfilesCache.fetchAllProfiles
\* ---------------------------------------------------------------------------

\* ProfilesCache.checkMergingConfigSingleProfile on the IProfile of a profile
CheckMergingConfigSingleProfile(profile) ==
    LET base == IF "base" \in DOMAIN defaultProfileByType
                THEN <<heapI[heapO[defaultProfileByType["base"]].profile]>>
                ELSE <<>>
    IN IF ShouldRemoveTokenFromProfile(profile, base) THEN ClearToken(profile) ELSE profile

\* ProfilesCache.fetchAllProfilesByType(type), reading configuration c: every
\* profile of the type, whatever its osLoc
FetchAllProfilesByType(c, type) ==
    LET profilesForType == GetAllProfiles(c, type)
    IN [k \in 1..Len(profilesForType) |->
          GetProfileLoaded(profilesForType[k].profName, profilesForType[k].profType,
                           CheckMergingConfigSingleProfile(GetMergedAttrs(c, profilesForType[k])))]

\* The public ProfilesCache.fetchAllProfilesByType(type) is called
FetchAllProfilesByTypeCall(type) ==
    /\ StartTask("fetchAllProfilesByType", type)
    /\ UNCHANGED <<cacheVars, call>>

\* The body of the public fetchAllProfilesByType, after await this.getProfileInfo()
FetchAllProfilesByTypeReturns(t) ==
    /\ t \in BagToSet(tasks)
    /\ Op(t) = "fetchAllProfilesByType"
    /\ Pc(t) = "body"
    /\ call' = Call("fetchAllProfilesByType", NoName, Args(t), FALSE, NoArgs, "return",
                    0, FetchAllProfilesByType(cfg, Args(t)))
    /\ tasks' = WithoutTask(t)
    /\ UNCHANGED cacheVars

\* The types callers pass to fetchAllProfilesByType
FetchTypes == {"zosmf", "base"}


\* this.allProfiles = profiles: a new array of new objects; the two maps are left
\* alone
AssignAllProfiles(profiles) ==
    LET n == Len(profiles)
        hO1 == heapO \o [k \in 1..n |->
                           [name |-> profiles[k].name, type |-> profiles[k].type,
                            profile |-> Len(heapI) + k]]
        hI1 == heapI \o [k \in 1..n |-> profiles[k].profile]
        all1 == [k \in 1..n |-> Len(heapO) + k]
    IN /\ SetCache(Canon(hO1, hI1, all1, 0, profilesByType, defaultProfileByType))
       /\ call' = Call("fetchAllProfiles", NoName, NoVal, FALSE, NoArgs, "return", 0, NoVal)
       /\ UNCHANGED <<cfg, allTypes, allExternalTypes>>

\* ProfilesCache.fetchAllProfiles() is called: with no type it stores the empty
\* array at once, otherwise it runs up to the await in the fetchAllProfilesByType of
\* the first type; the loop goes over the array this.allTypes is at the call
FetchAllProfilesCall ==
    IF allTypes = <<>>
    THEN AssignAllProfiles(<<>>) /\ UNCHANGED tasks
    ELSE /\ StartTask("fetchAllProfiles", [types |-> allTypes, i |-> 1, profiles |-> <<>>])
         /\ UNCHANGED <<cacheVars, call>>

\* The body of the fetchAllProfilesByType that fetchAllProfiles awaits, after its
\* await this.getProfileInfo(): the profiles of the type, which the loop pushes
FetchAllProfilesBody(t) ==
    /\ t \in BagToSet(tasks)
    /\ Op(t) = "fetchAllProfiles"
    /\ Pc(t) = "body"
    /\ tasks' = WithTask(t, Task(Op(t), "push", [Args(t) EXCEPT !.profiles =
                        @ \o FetchAllProfilesByType(cfg, Args(t).types[Args(t).i])]))
    /\ UNCHANGED <<cacheVars, call>>

\* The loop of fetchAllProfiles goes on after its await: the next type, or
\* this.allProfiles = profiles and the return
FetchAllProfilesNext(t) ==
    /\ t \in BagToSet(tasks)
    /\ Op(t) = "fetchAllProfiles"
    /\ Pc(t) = "push"
    /\ IF Args(t).i < Len(Args(t).types)
       THEN /\ tasks' = WithTask(t, Task(Op(t), "read", [Args(t) EXCEPT !.i = @ + 1]))
            /\ UNCHANGED <<cacheVars, call>>
       ELSE /\ AssignAllProfiles(Args(t).profiles)
            /\ tasks' = WithoutTask(t)


\* ---------------------------------------------------------------------------
\* The lookups that read the disk: getProfileInfo, getNamesForType,
\* getProfileFromConfig, getLoadedProfConfig, directLoad, isCredentialsSecured
\* ---------------------------------------------------------------------------

\* ProfileInfo.getAllProfiles(): the profiles of every type
GetAllProfilesOfAnyType(c) ==
    LET Typed(n) == Present(c, n) /\ EntryOf(c, n).type # NoVal
        names == SelectSeq(CfgOrder, Typed)
    IN [i \in 1..Len(names) |-> ProfAttrs(c, names[i])]

\* getNamesForType(type) is called: it runs up to its await of getProfileInfo
GetNamesForTypeCall(type) ==
    /\ StartTask("getNamesForType", type)
    /\ UNCHANGED <<cacheVars, call>>

\* getNamesForType after its await: the names of the profiles of the type
GetNamesForType(t) ==
    /\ t \in BagToSet(tasks)
    /\ Op(t) = "getNamesForType"
    /\ Pc(t) = "body"
    /\ LET profilesForType == GetAllProfiles(cfg, Args(t))
       IN call' = Call("getNamesForType", NoName, Args(t), FALSE, NoArgs, "return", 0,
                       [k \in 1..Len(profilesForType) |-> profilesForType[k].profName])
    /\ tasks' = WithoutTask(t)
    /\ UNCHANGED cacheVars

\* What getProfileFromConfig finds in configuration c: <<the first profile with a
\* non-empty osLoc, the name and, when profileType is truthy, the type>>, or <<>>
\* for undefined
ProfileFromConfig(c, profileName, profileType) ==
    LET Found(a) == /\ a.osLoc
                    /\ a.profName = profileName
                    /\ (~Truthy(profileType) \/ a.profType = profileType)
        found == SelectSeq(GetAllProfilesOfAnyType(c), Found)
    IN IF found = <<>> THEN <<>> ELSE <<found[1]>>

\* getProfileFromConfig(profileName, profileType) is called
GetProfileFromConfigCall(profileName, profileType) ==
    /\ StartTask("getProfileFromConfig", [name |-> profileName, type |-> profileType])
    /\ UNCHANGED <<cacheVars, call>>

\* getProfileFromConfig after its await
GetProfileFromConfig(t) ==
    /\ t \in BagToSet(tasks)
    /\ Op(t) = "getProfileFromConfig"
    /\ Pc(t) = "body"
    /\ call' = Call("getProfileFromConfig", Args(t).name, Args(t).type, FALSE,
                    NoArgs, "return", 0,
                    ProfileFromConfig(cfg, Args(t).name, Args(t).type))
    /\ tasks' = WithoutTask(t)
    /\ UNCHANGED cacheVars

\* getLoadedProfConfig(profileName, profileType) is called: it runs up to its own
\* await of getProfileInfo
GetLoadedProfConfigCall(profileName, profileType) ==
    /\ StartTask("getLoadedProfConfig",
                 [name |-> profileName, type |-> profileType, awaited |-> 1, current |-> <<>>])
    /\ UNCHANGED <<cacheVars, call>>

\* getLoadedProfConfig after an await of getProfileInfo: after its own it calls
\* getProfileFromConfig, which awaits getProfileInfo again; after that one
\* getProfileFromConfig finds currentProfile
GetLoadedProfConfigBody(t) ==
    /\ t \in BagToSet(tasks)
    /\ Op(t) = "getLoadedProfConfig"
    /\ Pc(t) = "body"
    /\ tasks' = IF Args(t).awaited = 1
                THEN WithTask(t, Task(Op(t), "read", [Args(t) EXCEPT !.awaited = 2]))
                ELSE WithTask(t, Task(Op(t), "merge", [Args(t) EXCEPT !.current =
                             ProfileFromConfig(cfg, Args(t).name, Args(t).type)]))
    /\ UNCHANGED <<cacheVars, call>>

\* getLoadedProfConfig after its await of getProfileFromConfig: undefined without
\* a currentProfile, otherwise always the object of getProfileLoaded with the
\* merged attributes.  When the configuration has lost the profile since, what
\* mergeArgsForProfile does is the library's business: it knows no argument of
\* the profile, and the object returned has no property, or it throws (ok)
GetLoadedProfConfig(t, ok) ==
    /\ t \in BagToSet(tasks)
    /\ Op(t) = "getLoadedProfConfig"
    /\ Pc(t) = "merge"
    /\ LET current == Args(t).current
           Returns(v) == Call("getLoadedProfConfig", Args(t).name, Args(t).type,
                              FALSE, NoArgs, "return", 0, v)
       IN call' = IF current = <<>>
                  THEN Returns(<<>>)
                  ELSE IF Present(cfg, current[1].profName)
                  THEN Returns(<<GetProfileLoaded(current[1].profName, current[1].profType,
                                                  GetMergedAttrs(cfg, current[1]))>>)
                  ELSE IF ok
                  THEN Returns(<<GetProfileLoaded(current[1].profName, current[1].profType,
                                                  Attrs(NoVal, NoVal, NoVal, NoVal, NoVal, NoVal))>>)
                  ELSE Call("getLoadedProfConfig", Args(t).name, Args(t).type,
                            FALSE, NoArgs, "throw", 0, "Error")
    /\ tasks' = WithoutTask(t)
    /\ UNCHANGED cacheVars

\* directLoad(type, name) is called: it runs up to the await of getProfileInfo in
\* its fetchAllProfilesByType
DirectLoadCall(type, name) ==
    /\ StartTask("directLoad", [type |-> type, name |-> name, profsOfType |-> <<>>])
    /\ UNCHANGED <<cacheVars, call>>

\* The fetchAllProfilesByType that directLoad awaits returns its profiles
DirectLoadBody(t) ==
    /\ t \in BagToSet(tasks)
    /\ Op(t) = "directLoad"
    /\ Pc(t) = "body"
    /\ tasks' = WithTask(t, Task(Op(t), "find", [Args(t) EXCEPT !.profsOfType = FetchAllProfilesByType(cfg, Args(t).type)]))
    /\ UNCHANGED <<cacheVars, call>>

\* directLoad after its await: the first profile with the name, or undefined
DirectLoad(t) ==
    /\ t \in BagToSet(tasks)
    /\ Op(t) = "directLoad"
    /\ Pc(t) = "find"
    /\ LET Named(q) == q.name = Args(t).name
           named == SelectSeq(Args(t).profsOfType, Named)
       IN call' = Call("directLoad", Args(t).name, Args(t).type, FALSE, NoArgs,
                       "return", 0, IF named = <<>> THEN <<>> ELSE <<named[1]>>)
    /\ tasks' = WithoutTask(t)
    /\ UNCHANGED cacheVars

\* isCredentialsSecured() is called
IsCredentialsSecuredCall ==
    /\ StartTask("isCredentialsSecured", NoArgs)
    /\ UNCHANGED <<cacheVars, call>>

\* isCredentialsSecured after its await: what ProfileInfo.isSecured() returns
IsCredentialsSecured(t, secured) ==
    /\ t \in BagToSet(tasks)
    /\ Op(t) = "isCredentialsSecured"
    /\ Pc(t) = "body"
    /\ call' = Call("isCredentialsSecured", NoName, NoVal, FALSE, NoArgs, "return", 0, secured)
    /\ tasks' = WithoutTask(t)
    /\ UNCHANGED cacheVars

\* What the disk holds when the lookups read it: zosmf1, whose user and password
\* name environment variables, is present or not; lpar.zosmf has an osLoc or none
ReadConfigs ==
    ConfigsOf({AbsentEntry} \cup TypedEntries("zosmf", {TRUE}, {ZosmfPlain}),
              TypedEntries("zosmf", {TRUE, FALSE}, {ZosmfPlain}),
              {AbsentEntry},
              {Z1},
              {NoName})

\* The profile callers pass to updateCachedProfile: its user names an environment
\* variable again
ReadUpdateProfiles ==
    {GetProfileLoaded(Z1, "zosmf", Attrs("h9", "443", "$ZE_USER", "pw", NoVal, NoVal))}

NextRead ==
    \/ RefreshCall
          /\ UNCHANGED <<debounceVars, datasetVars, utilVars>>
    \/ (\E t \in BagToSet(tasks), c \in ReadConfigs : GetProfileInfo(t, c))
          /\ UNCHANGED <<debounceVars, datasetVars, utilVars>>
    \/ (\E t \in BagToSet(tasks) : ReadProfilesFromDiskRejects(t))
          /\ UNCHANGED <<debounceVars, datasetVars, utilVars>>
    \/ (\E t \in BagToSet(tasks) : RefreshBody(t, <<"zosmf">>))
          /\ UNCHANGED <<debounceVars, datasetVars, utilVars>>
    \/ (\E p \in ReadUpdateProfiles : UpdateCachedProfile(p))
          /\ UNCHANGED <<tasks, debounceVars, datasetVars, utilVars>>
    \/ GetProfileInfoCall
          /\ UNCHANGED <<debounceVars, datasetVars, utilVars>>
    \/ GetNamesForTypeCall("zosmf")
          /\ UNCHANGED <<debounceVars, datasetVars, utilVars>>
    \/ (\E t \in BagToSet(tasks) : GetNamesForType(t))
          /\ UNCHANGED <<debounceVars, datasetVars, utilVars>>
    \/ GetProfileFromConfigCall(Z2, "zosmf")
          /\ UNCHANGED <<debounceVars, datasetVars, utilVars>>
    \/ (\E t \in BagToSet(tasks) : GetProfileFromConfig(t))
          /\ UNCHANGED <<debounceVars, datasetVars, utilVars>>
    \/ GetLoadedProfConfigCall(Z1, NoVal)
          /\ UNCHANGED <<debounceVars, datasetVars, utilVars>>
    \/ (\E t \in BagToSet(tasks) : GetLoadedProfConfigBody(t))
          /\ UNCHANGED <<debounceVars, datasetVars, utilVars>>
    \/ (\E t \in BagToSet(tasks), ok \in BOOLEAN : GetLoadedProfConfig(t, ok))
          /\ UNCHANGED <<debounceVars, datasetVars, utilVars>>
    \/ DirectLoadCall("zosmf", Z2)
          /\ UNCHANGED <<debounceVars, datasetVars, utilVars>>
    \/ (\E t \in BagToSet(tasks) : DirectLoadBody(t))
          /\ UNCHANGED <<debounceVars, datasetVars, utilVars>>
    \/ (\E t \in BagToSet(tasks) : DirectLoad(t))
          /\ UNCHANGED <<debounceVars, datasetVars, utilVars>>
    \/ IsCredentialsSecuredCall
          /\ UNCHANGED <<debounceVars, datasetVars, utilVars>>
    \/ (\E t \in BagToSet(tasks), secured \in BOOLEAN : IsCredentialsSecured(t, secured))
          /\ UNCHANGED <<debounceVars, datasetVars, utilVars>>
    \/ CheckForEnvVarAndUpdateCall
          /\ UNCHANGED <<tasks, debounceVars, datasetVars, utilVars>>

SpecRead == Init /\ [][NextRead]_vars


\* ---------------------------------------------------------------------------
\* loadNamedProfile on the caches that refresh and fetchAllProfiles leave
\* ---------------------------------------------------------------------------

\* What the disk holds when the cache reads it: zosmf1 is the default zosmf
\* profile, with lpar.zosmf after it or alone, or it has been given the type base.  fetchAllProfiles reads the disk
\* once for every type, so it can see either at each read
LookupConfigs ==
    ConfigsOf(TypedEntries("zosmf", {TRUE}, {ZosmfPlain}),
              {AbsentEntry} \cup TypedEntries("zosmf", {TRUE}, {ZosmfPlain}),
              {AbsentEntry},
              {Z1},
              {NoName})
    \cup ConfigsOf(TypedEntries("base", {TRUE}, {BaseApiml}),
                   {AbsentEntry},
                   {AbsentEntry},
                   {NoName},
                   {NoName})

\* The name and type loadNamedProfile is asked for: zosmf1 without a type, with
\* the empty type and with either type, lpar.zosmf, and a name the cache never
\* holds
LoadArgs ==
    {<<Z1, NoVal>>, <<Z1, "">>, <<Z1, "zosmf">>, <<Z1, "base">>, <<Z2, NoVal>>, <<B1, NoVal>>}

\* The calls of fetchAllProfiles that are in flight at once, and their bound
MaxFetches == 1

FetchesInFlight ==
    LET fetches == {t \in BagToSet(tasks) : Op(t) = "fetchAllProfiles"}
    IN BagCardinality([t \in fetches |-> CopiesIn(t, tasks)])

NextLookup ==
    \/ RefreshCall
          /\ UNCHANGED <<debounceVars, datasetVars, utilVars>>
    \/ (\E t \in BagToSet(tasks), c \in LookupConfigs : GetProfileInfo(t, c))
          /\ UNCHANGED <<debounceVars, datasetVars, utilVars>>
    \/ (\E t \in BagToSet(tasks) : ReadProfilesFromDiskRejects(t))
          /\ UNCHANGED <<debounceVars, datasetVars, utilVars>>
    \/ (\E t \in BagToSet(tasks) : RefreshBody(t, <<"zosmf">>))
          /\ UNCHANGED <<debounceVars, datasetVars, utilVars>>
    \/ (FetchesInFlight < MaxFetches /\ FetchAllProfilesCall)
          /\ UNCHANGED <<debounceVars, datasetVars, utilVars>>
    \/ (\E t \in BagToSet(tasks) : FetchAllProfilesBody(t))
          /\ UNCHANGED <<debounceVars, datasetVars, utilVars>>
    \/ (\E t \in BagToSet(tasks) : FetchAllProfilesNext(t))
          /\ UNCHANGED <<debounceVars, datasetVars, utilVars>>
    \/ (\E a \in LoadArgs, o \in BOOLEAN : LoadNamedProfile(a[1], a[2], o))
          /\ UNCHANGED <<tasks, debounceVars, datasetVars, utilVars>>
    \/ CheckForEnvVarAndUpdateCall
          /\ UNCHANGED <<tasks, debounceVars, datasetVars, utilVars>>

SpecLookup == Init /\ [][NextLookup]_vars

\* The positions of allProfiles that loadNamedProfile(name, type) accepts
LoadMatches(name, type) ==
    {i \in 1..Len(allProfiles) :
        /\ AllProfilesValues[i].name = name
        /\ (type \in {NoVal, ""} \/ AllProfilesValues[i].type = type)}

\* C4: loadNamedProfile(name, type, optional) returns the first profile of
\* allProfiles whose name is name and, when type is given, whose type is type; if
\* there is none it throws an Error when optional is false and returns undefined
\* when optional is true; allProfiles and the default-profile map are unchanged.
C4_LoadNamedProfile ==
    [][call'.op = "loadNamedProfile" =>
          /\ IF LoadMatches(call'.name, call'.type) # {}
             THEN /\ call'.kind = "return"
                  /\ call'.index \in LoadMatches(call'.name, call'.type)
                  /\ \A i \in LoadMatches(call'.name, call'.type) : call'.index <= i
             ELSE IF call'.optional
             THEN call'.kind = "return" /\ call'.index = 0
             ELSE call'.kind = "throw" /\ call'.value = "Error"
          /\ AllProfilesValues' = AllProfilesValues
          /\ DefaultValues' = DefaultValues]_vars

\* allProfiles holds zosmf1 twice, as a zosmf profile and after it as a base
\* profile, and loadNamedProfile, asked for the name alone, has returned the first
C4_Witness ==
    /\ call.op = "loadNamedProfile"
    /\ call.kind = "return"
    /\ call.name = Z1
    /\ call.type = NoVal
    /\ call.index = 1
    /\ Len(allProfiles) = 2
    /\ LoadMatches(Z1, NoVal) = {1, 2}
    /\ AllProfilesValues[1].type = "zosmf"
    /\ AllProfilesValues[2].type = "base"


\* ---------------------------------------------------------------------------
\* The profile types of refresh
\* ---------------------------------------------------------------------------

\* registeredApiTypes() returns at most this many types
MaxRegistered == 2

\* What apiRegister.registeredApiTypes() returns: any types, repeated or not
RegisteredApiTypes ==
    UNION {[1..n -> {"zosmf", "zftp", "ssh"}] : n \in 0..MaxRegistered}

\* The types extenders pass to registerCustomProfilesType
CustomTypes == {"zosmf", "zftp", "base"}

\* The configuration refresh reads: one zosmf profile
TypesConfigs ==
    ConfigsOf(TypedEntries("zosmf", {TRUE}, {ZosmfPlain}),
              {AbsentEntry}, {AbsentEntry}, {NoName}, {NoName})

\* ProfilesCache.getAllTypes()
GetAllTypes == allTypes

NextTypes ==
    \/ RefreshCall
          /\ UNCHANGED <<debounceVars, datasetVars, utilVars>>
    \/ (\E t \in BagToSet(tasks), c \in TypesConfigs : GetProfileInfo(t, c))
          /\ UNCHANGED <<debounceVars, datasetVars, utilVars>>
    \/ (\E t \in BagToSet(tasks) : ReadProfilesFromDiskRejects(t))
          /\ UNCHANGED <<debounceVars, datasetVars, utilVars>>
    \/ (\E t \in BagToSet(tasks), r \in RegisteredApiTypes : RefreshBody(t, r))
          /\ UNCHANGED <<debounceVars, datasetVars, utilVars>>
    \/ (\E t \in CustomTypes : RegisterCustomProfilesType(t))
          /\ UNCHANGED <<tasks, debounceVars, datasetVars, utilVars>>
    \/ (\E t \in FetchTypes : FetchAllProfilesByTypeCall(t))
          /\ UNCHANGED <<debounceVars, datasetVars, utilVars>>
    \/ (\E t \in BagToSet(tasks) : FetchAllProfilesByTypeReturns(t))
          /\ UNCHANGED <<debounceVars, datasetVars, utilVars>>

SpecTypes == Init /\ [][NextTypes]_vars

\* C15: when refresh(apiRegister) completes, getAllTypes() holds the types
\* registeredApiTypes() returned, the types passed to registerCustomProfilesType
\* before, "ssh" and "base", no other type, and each type once
C15_AllTypesExactlyOnce ==
    [][(call'.op = "refresh" /\ call'.kind = "return") =>
          /\ Range(GetAllTypes') = Range(call'.value) \cup Range(allExternalTypes)
                                      \cup {"ssh", "base"}
          /\ \A m, n \in 1..Len(GetAllTypes') : GetAllTypes'[m] = GetAllTypes'[n] => m = n]_vars

\* A refresh has completed with "base" and other types registered by extenders,
\* and getAllTypes() holds the four types
C15_Witness ==
    /\ call.op = "refresh"
    /\ call.kind = "return"
    /\ Range(allExternalTypes) = CustomTypes
    /\ Len(GetAllTypes) = 4
    /\ Range(GetAllTypes) = {"zosmf", "zftp", "ssh", "base"}


\* ---------------------------------------------------------------------------
\* ProfilesCache.fetchAllProfiles
\* ---------------------------------------------------------------------------

\* What the disk holds when the cache reads it: zosmf1, the default, with
\* lpar.zosmf, which has an empty osLoc; either of them alone
FetchConfigs ==
    ConfigsOf({AbsentEntry} \cup TypedEntries("zosmf", {TRUE}, {ZosmfPlain}),
              TypedEntries("zosmf", {FALSE}, {ZosmfPlain}),
              {AbsentEntry},
              {Z1},
              {NoName})
    \cup ConfigsOf(TypedEntries("zosmf", {TRUE}, {ZosmfPlain}),
                   {AbsentEntry}, {AbsentEntry}, {Z1}, {NoName})

\* The profiles callers pass to updateCachedProfile
FetchUpdateProfiles ==
    {GetProfileLoaded(n, "zosmf", Attrs("h9", "443", "ibmuser", "pw", NoVal, NoVal)) :
        n \in {Z1}}

\* refresh, fetchAllProfiles and updateCachedProfile calls that complete: every
\* disk read succeeds
NextFetch ==
    \/ RefreshCall
          /\ UNCHANGED <<debounceVars, datasetVars, utilVars>>
    \/ (\E t \in BagToSet(tasks), c \in FetchConfigs : GetProfileInfo(t, c))
          /\ UNCHANGED <<debounceVars, datasetVars, utilVars>>
    \/ (\E t \in BagToSet(tasks) : RefreshBody(t, <<"zosmf">>))
          /\ UNCHANGED <<debounceVars, datasetVars, utilVars>>
    \/ FetchAllProfilesCall
          /\ UNCHANGED <<debounceVars, datasetVars, utilVars>>
    \/ (\E t \in BagToSet(tasks) : FetchAllProfilesBody(t))
          /\ UNCHANGED <<debounceVars, datasetVars, utilVars>>
    \/ (\E t \in BagToSet(tasks) : FetchAllProfilesNext(t))
          /\ UNCHANGED <<debounceVars, datasetVars, utilVars>>
    \/ (\E p \in FetchUpdateProfiles : UpdateCachedProfile(p))
          /\ UNCHANGED <<tasks, debounceVars, datasetVars, utilVars>>
    \/ CheckForEnvVarAndUpdateCall
          /\ UNCHANGED <<tasks, debounceVars, datasetVars, utilVars>>

SpecFetch == Init /\ [][NextFetch]_vars

\* The (name, type) pairs of a list of cached profiles
NameTypePairs(profiles) == {<<profiles[k].name, profiles[k].type>> : k \in 1..Len(profiles)}

\* Every call made so far has completed
FetchCompleted == tasks = EmptyBag /\ (call.op = "new" \/ call.kind = "return")

\* C16: in every state reached by completed refresh, fetchAllProfiles and
\* updateCachedProfile calls, allProfiles and the getProfiles(T) lists hold the
\* same (name, type) pairs, every cached profile has a non-empty OS location in
\* the configuration, and the per-type map and the default map have no entry for
\* a type without a profile in allProfiles
C16_CacheConsistent ==
    FetchCompleted =>
       /\ NameTypePairs(AllProfilesValues)
             = UNION {NameTypePairs(GetProfiles(T)) : T \in TypeNames}
       /\ \A k \in 1..Len(allProfiles) :
             /\ Present(cfg, AllProfilesValues[k].name)
             /\ EntryOf(cfg, AllProfilesValues[k].name).osLoc
       /\ \A T \in DOMAIN profilesByType \cup DOMAIN defaultProfileByType :
             \E k \in 1..Len(allProfiles) : AllProfilesValues[k].type = T


\* ---------------------------------------------------------------------------
\* ProfilesCache.updateBaseProfileFileLogin and updateBaseProfileFileLogout
\* ---------------------------------------------------------------------------

\* The updProfile a login supplies: a token type and a token value
LoginProfiles ==
    {[tokenType |-> "apimlAuthenticationToken", tokenValue |-> "tok1"],
     [tokenType |-> "jwtToken", tokenValue |-> "tok2"]}

\* A logout supplies no updProfile
NoUpdProfile == [tokenType |-> NoVal, tokenValue |-> NoVal]

\* ProfileInfo.updateProperty and updateKnownProperty when they succeed: the
\* configuration stores the value for the property of the profile (undefined
\* removes it)
UpdateProperty(st, profileName, property, value) ==
    [st EXCEPT !.tokens[profileName][property] = value]

\* The properties updateBaseProfileFileLogin writes, in the order of its two awaits
LoginProperties == <<"tokenType", "tokenValue">>

\* The properties updateBaseProfileFileLogout writes, in the order of its two awaits
LogoutProperties == <<"tokenValue", "tokenType">>

\* The last step a login or logout has made
LastUpdate(st, op, kind, args) ==
    [st EXCEPT !.op = op, !.kind = kind, !.profile = args.name, !.upd = args.upd]

\* updateBaseProfileFileLogin(profile, updProfile) is called: it runs up to its
\* await of getProfileInfo
UpdateBaseProfileFileLogin(profileName, updProfile) ==
    /\ StartTask("login", [name |-> profileName, upd |-> updProfile])
    /\ UNCHANGED <<cacheVars, call, stored>>

\* updateBaseProfileFileLogout(profile) is called: it runs up to its await of
\* getProfileInfo
UpdateBaseProfileFileLogout(profileName) ==
    /\ StartTask("logout", [name |-> profileName, upd |-> NoUpdProfile])
    /\ UNCHANGED <<cacheVars, call, stored>>

\* The first updateProperty of the login of call t settles: it has stored the
\* value (ok), or it throws and the login rejects
LoginFirstUpdate(t, ok) ==
    /\ t \in BagToSet(tasks)
    /\ Op(t) = "login"
    /\ Pc(t) = "body"
    /\ stored' = IF ok
                 THEN LastUpdate(UpdateProperty(stored, Args(t).name, LoginProperties[1],
                                                Args(t).upd[LoginProperties[1]]),
                                 "login", "pending", Args(t))
                 ELSE LastUpdate(stored, "login", "throw", Args(t))
    /\ tasks' = IF ok THEN WithTask(t, Task(Op(t), "second", Args(t))) ELSE WithoutTask(t)
    /\ UNCHANGED <<cacheVars, call>>

\* The second updateProperty of the login of call t settles, and the login
\* returns or rejects
LoginSecondUpdate(t, ok) ==
    /\ t \in BagToSet(tasks)
    /\ Op(t) = "login"
    /\ Pc(t) = "second"
    /\ stored' = IF ok
                 THEN LastUpdate(UpdateProperty(stored, Args(t).name, LoginProperties[2],
                                                Args(t).upd[LoginProperties[2]]),
                                 "login", "return", Args(t))
                 ELSE LastUpdate(stored, "login", "throw", Args(t))
    /\ tasks' = WithoutTask(t)
    /\ UNCHANGED <<cacheVars, call>>

\* The first updateKnownProperty of the logout of call t settles
LogoutFirstUpdate(t, ok) ==
    /\ t \in BagToSet(tasks)
    /\ Op(t) = "logout"
    /\ Pc(t) = "body"
    /\ stored' = IF ok
                 THEN LastUpdate(UpdateProperty(stored, Args(t).name, LogoutProperties[1],
                                                NoVal),
                                 "logout", "pending", Args(t))
                 ELSE LastUpdate(stored, "logout", "throw", Args(t))
    /\ tasks' = IF ok THEN WithTask(t, Task(Op(t), "second", Args(t))) ELSE WithoutTask(t)
    /\ UNCHANGED <<cacheVars, call>>

\* The second updateKnownProperty of the logout of call t settles, and the
\* logout returns or rejects
LogoutSecondUpdate(t, ok) ==
    /\ t \in BagToSet(tasks)
    /\ Op(t) = "logout"
    /\ Pc(t) = "second"
    /\ stored' = IF ok
                 THEN LastUpdate(UpdateProperty(stored, Args(t).name, LogoutProperties[2],
                                                NoVal),
                                 "logout", "return", Args(t))
                 ELSE LastUpdate(stored, "logout", "throw", Args(t))
    /\ tasks' = WithoutTask(t)
    /\ UNCHANGED <<cacheVars, call>>

\* The configurations read while logins and logouts run: zosmf1, whose user and
\* password name environment variables, is present or not
LoginConfigs ==
    ConfigsOf({AbsentEntry} \cup TypedEntries("zosmf", {TRUE}, {ZosmfPlain}),
              {AbsentEntry}, {AbsentEntry}, {Z1}, {NoName})

NextLogin ==
    \/ RefreshCall
          /\ UNCHANGED <<debounceVars, datasetVars, utilVars>>
    \/ (\E t \in BagToSet(tasks), c \in LoginConfigs : GetProfileInfo(t, c))
          /\ UNCHANGED <<debounceVars, datasetVars, utilVars>>
    \/ (\E t \in BagToSet(tasks) : ReadProfilesFromDiskRejects(t))
          /\ UNCHANGED <<debounceVars, datasetVars, utilVars>>
    \/ (\E t \in BagToSet(tasks) : RefreshBody(t, <<"zosmf">>))
          /\ UNCHANGED <<debounceVars, datasetVars, utilVars>>
    \/ (\E n \in LoginNames, u \in LoginProfiles : UpdateBaseProfileFileLogin(n, u))
          /\ UNCHANGED <<debounceVars, datasetVars, fav, concat, typeConfigs, change>>
    \/ (\E n \in LoginNames : UpdateBaseProfileFileLogout(n))
          /\ UNCHANGED <<debounceVars, datasetVars, fav, concat, typeConfigs, change>>
    \/ (\E t \in BagToSet(tasks), ok \in BOOLEAN : LoginFirstUpdate(t, ok))
          /\ UNCHANGED <<debounceVars, datasetVars, fav, concat, typeConfigs, change>>
    \/ (\E t \in BagToSet(tasks), ok \in BOOLEAN : LoginSecondUpdate(t, ok))
          /\ UNCHANGED <<debounceVars, datasetVars, fav, concat, typeConfigs, change>>
    \/ (\E t \in BagToSet(tasks), ok \in BOOLEAN : LogoutFirstUpdate(t, ok))
          /\ UNCHANGED <<debounceVars, datasetVars, fav, concat, typeConfigs, change>>
    \/ (\E t \in BagToSet(tasks), ok \in BOOLEAN : LogoutSecondUpdate(t, ok))
          /\ UNCHANGED <<debounceVars, datasetVars, fav, concat, typeConfigs, change>>

SpecLogin == Init /\ [][NextLogin]_vars

\* The token properties the configuration stores for the profile of the last
\* login or logout
StoredToken == stored.tokens[stored.profile]

\* C17: in every state reached through logins and logouts of a profile, between
\* their two updates and after a failed second update too, a stored tokenValue
\* comes with a stored tokenType; when a login returns both properties hold the
\* supplied values, and when a logout returns both are undefined
C17_TokenValueHasTokenType ==
    /\ \A n \in LoginNames :
          stored.tokens[n].tokenValue # NoVal => stored.tokens[n].tokenType # NoVal
    /\ (stored.op = "login" /\ stored.kind = "return") =>
          /\ StoredToken.tokenType = stored.upd.tokenType
          /\ StoredToken.tokenValue = stored.upd.tokenValue
    /\ (stored.op = "logout" /\ stored.kind = "return") =>
          /\ StoredToken.tokenType = NoVal
          /\ StoredToken.tokenValue = NoVal


\* ---------------------------------------------------------------------------
\* SharedUtils.handleProfileChange
\* ---------------------------------------------------------------------------

\* treeProviders holds at most this many providers
MaxProviders == 2

\* A provider has at most this many top-level nodes
MaxChildren == 2

\* profile.name
ChangedProfileName == "sestest"

\* The top-level nodes: a label, and a setProfileToChoice that is missing, returns
\* or throws an Error
ProviderNodes ==
    [label : {ChangedProfileName, "other"}, setProfileToChoice : {"absent", "returns", "throws"}]

\* What provider.getChildren() does: it returns nodes, throws an Error, or throws
\* a value that is no Error
GetChildrenOutcomes ==
    [kind : {"throwsError", "throwsValue"}, nodes : {<<>>}]
    \cup [kind : {"returns"}, nodes : UNION {[1..n -> ProviderNodes] : n \in 0..MaxChildren}]

\* (await provider.getChildren()).find((n) => n.label === profile.name): the
\* position of the first node with the label, 0 for undefined
FindNode(nodes, name) ==
    IF \E i \in 1..Len(nodes) : nodes[i].label = name
    THEN CHOOSE i \in 1..Len(nodes) :
            nodes[i].label = name /\ \A j \in 1..(i - 1) : nodes[j].label # name
    ELSE 0

\* The body of the loop for the provider at position i: whether setProfileToChoice
\* was called, what was logged, and whether the catch block was entered
ProviderStep(provider) ==
    LET idx == FindNode(provider.nodes, ChangedProfileName)
        method == IF idx = 0 THEN "absent" ELSE provider.nodes[idx].setProfileToChoice
    IN IF provider.kind = "throwsError"
       THEN [called |-> FALSE, logged |-> <<"getChildren">>, caught |-> TRUE]
       ELSE IF provider.kind = "throwsValue"
       THEN [called |-> FALSE, logged |-> <<>>, caught |-> TRUE]
       ELSE IF method = "returns"
       THEN [called |-> TRUE, logged |-> <<>>, caught |-> FALSE]
       ELSE IF method = "throws"
       THEN [called |-> TRUE, logged |-> <<"setProfileToChoice">>, caught |-> TRUE]
       ELSE [called |-> FALSE, logged |-> <<>>, caught |-> FALSE]

\* SharedUtils.handleProfileChange(treeProviders, profile) is called: with no
\* provider it returns, otherwise it calls getChildren of the first provider and
\* awaits it
HandleProfileChange ==
    /\ ~change.returned
    /\ change.pc = 0
    /\ change' = IF change.providers = <<>>
                 THEN [change EXCEPT !.returned = TRUE]
                 ELSE [change EXCEPT !.pc = 1]

\* getChildren of the provider the loop awaits settles and the body of the loop
\* runs: the catch block returns, the end of the loop returns, and otherwise
\* getChildren of the next provider is called and awaited
ProviderSettles ==
    /\ ~change.returned
    /\ change.pc \in 1..Len(change.providers)
    /\ LET i == change.pc
           step == ProviderStep(change.providers[i])
           called1 == IF step.called THEN change.called \cup {i} ELSE change.called
           logged1 == change.logged \o [k \in 1..Len(step.logged) |-> <<i, step.logged[k]>>]
           done == step.caught \/ i = Len(change.providers)
       IN change' = [change EXCEPT !.called = called1, !.logged = logged1,
                                   !.returned = done,
                                   !.pc = IF done THEN 0 ELSE i + 1]

\* The providers handleProfileChange is given
ChangeInit ==
    /\ CacheInit /\ DebounceInit /\ DatasetInit
    /\ FavIdle /\ ConcatIdle /\ TypeConfigsInit /\ StoredInit
    /\ \E ps \in UNION {[1..n -> GetChildrenOutcomes] : n \in 0..MaxProviders} :
          change = [providers |-> ps, pc |-> 0, returned |-> FALSE, called |-> {},
                    logged |-> <<>>, thrown |-> FALSE]

NextChange ==
    \/ HandleProfileChange
          /\ UNCHANGED <<cacheVars, call, tasks, debounceVars, datasetVars, fav, concat, typeConfigs, stored>>
    \/ ProviderSettles
          /\ UNCHANGED <<cacheVars, call, tasks, debounceVars, datasetVars, fav, concat, typeConfigs, stored>>

SpecChange == ChangeInit /\ [][NextChange]_vars

\* The providers that have a top-level node labelled profile.name with a
\* setProfileToChoice
HasMatchingNode(provider) ==
    /\ provider.kind = "returns"
    /\ FindNode(provider.nodes, ChangedProfileName) # 0
    /\ provider.nodes[FindNode(provider.nodes, ChangedProfileName)].setProfileToChoice # "absent"

\* The provider throws from getChildren or from the setProfileToChoice of its
\* matching node
ProviderThrows(provider) ==
    \/ provider.kind # "returns"
    \/ /\ FindNode(provider.nodes, ChangedProfileName) # 0
       /\ provider.nodes[FindNode(provider.nodes, ChangedProfileName)].setProfileToChoice = "throws"

\* C18: when handleProfileChange has returned, setProfileToChoice was called on
\* the matching node of every provider that has one, whatever the other providers
\* threw; the error of the provider that threw first is logged, and none reaches
\* the caller
C18_EveryMatchingProviderUpdated ==
    change.returned =>
       /\ change.called = {i \in 1..Len(change.providers) : HasMatchingNode(change.providers[i])}
       /\ \A i \in 1..Len(change.providers) :
             (/\ ProviderThrows(change.providers[i])
              /\ \A j \in 1..(i - 1) : ~ProviderThrows(change.providers[j])) =>
                \E k \in 1..Len(change.logged) : change.logged[k][1] = i
       /\ ~change.thrown

====
